---------------------------- MODULE Spec2Model ----------------------------
(***************************************************************************)
(* Sonir: the trajectory baker (sonir/core.py), and the per-frame viewport *)
(* animator's active-segment lookup (sonir/renderer.py).                   *)
(*                                                                         *)
(* Numbers.  Timestamps are integers (ticks).  Positions, direction        *)
(* vectors and wall endpoints are floating-point numbers in the program;   *)
(* here they are integers counted in units of 1/Scale, and every           *)
(* arithmetic result on them is rounded to Precision significant bits      *)
(* (round to nearest, ties to even), which is IEEE-754 arithmetic with a   *)
(* shorter mantissa.                                                       *)
(***************************************************************************)
EXTENDS Integers, Sequences, FiniteSets, TLC

VARIABLES
    call,       \* arguments of the latest bake call: [onsets, speed, seed]
    ret,        \* what that call returned: [timeline, onsets, raised]
    prev,       \* <<ret>> of the first call once bake has been called again with
                \* the same arguments, <<>> before
    ncalls,     \* the number of bake calls made
    config,     \* the Config.ENABLE_* switches
    track,      \* the viewport's track: [timeline, onsets]
    audio_time, \* audio time of the latest animator frame
    state,      \* render_state of the track: [cam, particles, trail, shake, last_hit_idx]
    frame,      \* what the latest _draw_viewport call did
    nframes,    \* the number of frames drawn
    smooth,     \* a camera smoothed towards a constant target: [cam, target, before, steps]
    tracks_data,\* RhythmGame.tracks_data: track name -> its baked onsets
    modifiers,  \* RhythmGame.modifiers, a subset of {"chaos", "focus", "death"}
    autoplay,   \* RhythmGame.autoplay
    game,       \* the mutable fields of the RhythmGame
    update,     \* what the latest _handle_input call did: [audio_time, events, path, result, log, reshuffle]
    hist,       \* since the last reset: the onsets judged, in order, and the score at
                \* the moment health first was 0; and the number of updates that played
    url,        \* a string given to AudioDownloader.is_url, and what the call returned
    dash        \* a GeometryDashGame: its level, its player, and what the latest call did

vars == <<call, ret, prev, ncalls, config, track, audio_time, state, frame, nframes, smooth,
          tracks_data, modifiers, autoplay, game, update, hist, url, dash>>

bakeVars == <<call, ret, prev, ncalls>>
viewVars == <<config, track, audio_time, state, frame, nframes>>
camVars == <<smooth>>
gameVars == <<tracks_data, modifiers, autoplay, game, update, hist, dash>>

---------------------------------------------------------------------------
(* Bounds of the model *)

MaxLen == 3         \* longest input onset sequence
MaxTime == 2        \* largest input timestamp (ticks)
MaxSeed == 1        \* integer seeds are 0..MaxSeed
MaxSpeed == 2       \* speeds are 1 and MaxSpeed (position units per tick)
MaxEntropy == 1     \* an unseeded generator starts in one of the states 0..MaxEntropy

MinTime == 0 - 1    \* smallest input timestamp: a negative one is possible
NoSeed == 0 - 1     \* seed=None

Times == MinTime..MaxTime
Seeds == (0..MaxSeed) \cup {NoSeed}
Speeds == {1, MaxSpeed}
Entropy == 0..MaxEntropy

RECURSIVE SeqsUpTo(_, _)
SeqsUpTo(S, n) ==
    IF n = 0 THEN {<<>>}
    ELSE LET shorter == SeqsUpTo(S, n - 1)
         IN  shorter \cup {Append(s, x) : s \in {q \in shorter : Len(q) = n - 1}, x \in S}

OnsetInputs == SeqsUpTo(Times, MaxLen)

---------------------------------------------------------------------------
(* Floating point *)

Scale == 100        \* one position unit is Scale model units
Precision == 12     \* significant bits of a floating-point number

Abs(x) == IF x < 0 THEN 0 - x ELSE x

RECURSIVE Pow2(_)
Pow2(n) == IF n = 0 THEN 1 ELSE 2 * Pow2(n - 1)

\* integers below this are floating-point numbers exactly
MantissaLimit == Pow2(Precision)

\* the spacing of the floating-point numbers around x (one unit in the last place)
RECURSIVE QuantumFrom(_, _)
QuantumFrom(x, q) == IF x < q * MantissaLimit THEN q ELSE QuantumFrom(x, 2 * q)
Quantum(x) == QuantumFrom(Abs(x), 1)

\* round to nearest, ties to even
FlAbs(x) ==
    LET q == Quantum(x)
        r == x % q
        lo == x - r
    IN  IF 2 * r < q THEN lo
        ELSE IF 2 * r > q THEN lo + q
        ELSE IF (lo \div q) % 2 = 0 THEN lo ELSE lo + q

Fl(x) ==
    IF Abs(x) < MantissaLimit THEN x
    ELSE IF x < 0 THEN 0 - FlAbs(0 - x) ELSE FlAbs(x)

FAdd(a, b) == Fl(a + b)
FSub(a, b) == Fl(a - b)
\* a in model units times a plain scalar k
FMulK(a, k) == Fl(a * k)

VAdd(u, v) == <<FAdd(u[1], v[1]), FAdd(u[2], v[2])>>
VSub(u, v) == <<FSub(u[1], v[1]), FSub(u[2], v[2])>>
VMulK(u, k) == <<FMulK(u[1], k), FMulK(u[2], k)>>

\* a / b for b > 0, rounded to the nearest integer
RoundDiv(a, b) == (2 * a + b) \div (2 * b)

\* the integer square root of n, which lies in lo..hi
RECURSIVE IsqrtIn(_, _, _)
IsqrtIn(n, lo, hi) ==
    IF lo = hi THEN lo
    ELSE LET mid == (lo + hi + 1) \div 2
         IN  IF mid * mid <= n THEN IsqrtIn(n, mid, hi) ELSE IsqrtIn(n, lo, mid - 1)

Isqrt(n) == IsqrtIn(n, 0, 3 * Scale)

---------------------------------------------------------------------------
(* Angles: multiples of 15 degrees, cos and sin in units of 1/Scale *)

NDirs == 24

CosTable ==
    <<100, 97, 87, 71, 50, 26, 0, -26, -50, -71, -87, -97,
      -100, -97, -87, -71, -50, -26, 0, 26, 50, 71, 87, 97>>

Cos(k) == CosTable[(k % NDirs) + 1]
Sin(k) == Cos(k - 6)
UnitVec(k) == <<Cos(k), Sin(k)>>

\* math.atan2(d[1], d[0]) of a unit vector, as an angle index
Atan2(d) == CHOOSE k \in 0..(NDirs - 1) : UnitVec(k) = d

---------------------------------------------------------------------------
(* np.random.RandomState: a generator whose draws are a function of its    *)
(* state, which every draw advances                                        *)

RngMod == 24

RngStep(s) == (13 * s + 5) % RngMod

\* RandomState(seed): an integer seed fixes the state, None takes OS entropy
RngInitUnseeded(seed, entropy) == entropy
RngInit(seed, entropy) == IF seed = NoSeed THEN entropy ELSE seed % RngMod

\* rng.uniform(0, 2*pi), as an angle index
DrawAngle(s) == s % NDirs
\* rng.uniform(radians(75), radians(135)), as an angle index 5..9
DrawTurn(s) == 5 + (s % 5)
\* rng.random_sample() > 0.5
DrawNegate(s) == s >= RngMod \div 2

---------------------------------------------------------------------------
(* np.insert(onsets, 0, 0.0) and np.unique(onsets) *)

Range(s) == {s[i] : i \in 1..Len(s)}

Min(S) == CHOOSE x \in S : \A y \in S : x <= y

RECURSIVE SortedSeqOf(_)
SortedSeqOf(S) ==
    IF S = {} THEN <<>>
    ELSE <<Min(S)>> \o SortedSeqOf(S \ {Min(S)})

RECURSIVE InsertSorted(_, _)
InsertSorted(s, x) ==
    IF s = <<>> THEN <<x>>
    ELSE IF x <= Head(s) THEN <<x>> \o s
    ELSE <<Head(s)>> \o InsertSorted(Tail(s), x)

RECURSIVE SortKeepDup(_)
SortKeepDup(s) == IF s = <<>> THEN <<>> ELSE InsertSorted(SortKeepDup(Tail(s)), Head(s))

UniqueKeepDup(onsets) == SortKeepDup(onsets)
Unique(onsets) == SortedSeqOf(Range(onsets))

EnsureStart(onsets) == IF onsets[1] > 0 THEN <<0>> \o onsets ELSE onsets


---------------------------------------------------------------------------
(* SonirCore.bake *)

wall_len == 90

\* norm = curr_d - next_d; norm /= norm_len if norm_len > 0 else 1
Normal(curr_d, next_d) ==
    LET norm == VSub(curr_d, next_d)
        norm_len == Isqrt(norm[1] * norm[1] + norm[2] * norm[2])
    IN  IF norm_len > 0
        THEN <<Fl(RoundDiv(norm[1] * Scale, norm_len)), Fl(RoundDiv(norm[2] * Scale, norm_len))>>
        ELSE norm

\* wdir = [-norm[1], norm[0]]
WallDir(norm) == <<0 - norm[2], norm[1]>>

\* hit_p = curr_p + curr_d * (speed * dt)
HitPoint(curr_p, curr_d, speed, dt) == VAdd(curr_p, VMulK(curr_d, speed * dt))

Wall1(hit_p, wdir) == VAdd(hit_p, VMulK(wdir, wall_len))

Wall2OffCentre(hit_p, wdir) == VSub(hit_p, VMulK(wdir, wall_len \div 2))
Wall2(hit_p, wdir) == VSub(hit_p, VMulK(wdir, wall_len))

\* turn = rng.uniform(radians(75), radians(135)); if rng.random_sample() > 0.5: turn *= -1
\* the generator's state is s before the two draws
Turn(s) == IF DrawNegate(RngStep(RngStep(s))) THEN 0 - DrawTurn(RngStep(s)) ELSE DrawTurn(RngStep(s))

SegmentStartStale(onsets, i) == onsets[1]
SegmentStart(onsets, i) == onsets[i]

\* curr_p, curr_d = hit_p, next_d: the point the next segment starts from
CarryPointStale(curr_p, hit_p) == curr_p
CarryPoint(curr_p, hit_p) == hit_p

\* the loop over i (1-based here), from the state on entry to iteration i
RECURSIVE BakeLoop(_, _, _, _, _, _, _)
BakeLoop(onsets, speed, i, curr_p, curr_d, s, timeline) ==
    IF i > Len(onsets) - 1 THEN timeline
    ELSE LET t0 == SegmentStart(onsets, i)
             t1 == onsets[i + 1]
             dt == t1 - t0
             hit_p == HitPoint(curr_p, curr_d, speed, dt)
             new_angle == Atan2(curr_d) + Turn(s)
             next_d == UnitVec(new_angle)
             wdir == WallDir(Normal(curr_d, next_d))
             seg == [t0 |-> t0, t1 |-> t1, p0 |-> curr_p, p1 |-> hit_p,
                     w1 |-> Wall1(hit_p, wdir), w2 |-> Wall2(hit_p, wdir)]
         IN  BakeLoop(onsets, speed, i + 1, CarryPoint(curr_p, hit_p), next_d, RngStep(RngStep(s)),
                      Append(timeline, seg))

BakeRaisesOnEmpty(onsets, speed, seed, entropy) ==
    IF Len(onsets) = 0
    THEN [timeline |-> <<>>, onsets |-> onsets, raised |-> TRUE]
    ELSE LET s0 == RngInit(seed, entropy)
             sane == Unique(EnsureStart(onsets))
             curr_angle == DrawAngle(RngStep(s0))
         IN  [timeline |-> BakeLoop(sane, speed, 1, <<0, 0>>, UnitVec(curr_angle),
                                    RngStep(s0), <<>>),
              onsets |-> sane, raised |-> FALSE]

\* non-decreasing and non-negative: the input contract of bake
ValidInput(onsets) ==
    /\ \A i \in 1..Len(onsets) : onsets[i] >= 0
    /\ \A i \in 1..(Len(onsets) - 1) : onsets[i] <= onsets[i + 1]

BakeValidating(onsets, speed, seed, entropy) ==
    IF ~ValidInput(onsets)
    THEN [timeline |-> <<>>, onsets |-> onsets, raised |-> TRUE]
    ELSE BakeRaisesOnEmpty(onsets, speed, seed, entropy)

\* bake(onsets, speed, seed): the returned pair, and whether an exception was
\* raised instead (bake has no raise statement and no failing operation)
Bake(onsets, speed, seed, entropy) ==
    IF Len(onsets) = 0
    THEN [timeline |-> <<>>, onsets |-> onsets, raised |-> FALSE]
    ELSE LET s0 == RngInit(seed, entropy)
             sane == Unique(EnsureStart(onsets))
             curr_angle == DrawAngle(RngStep(s0))
         IN  [timeline |-> BakeLoop(sane, speed, 1, <<0, 0>>, UnitVec(curr_angle),
                                    RngStep(s0), <<>>),
              onsets |-> sane, raised |-> FALSE]

---------------------------------------------------------------------------
(* The baker's callers *)

NotCalled == [timeline |-> <<>>, onsets |-> <<>>, raised |-> FALSE]

NoTrack == [timeline |-> <<>>, onsets |-> <<>>]

\* Config as config.py sets it
DefaultConfig == [shake |-> TRUE, particles |-> TRUE, trails |-> TRUE, cinema_cam |-> TRUE]

\* SonirRenderer.__init__: the render state of a track
InitialRenderState ==
    [cam |-> <<0, 0>>, particles |-> <<>>, trail |-> <<>>, shake |-> 0, last_hit_idx |-> 0 - 1]

NoFrame ==
    [looked_up |-> FALSE, idx |-> 0, active |-> FALSE, progress |-> 0, fired |-> FALSE,
     reads |-> {}, raised |-> FALSE, popped |-> FALSE]

NoSmooth == [cam |-> <<0, 0>>, target |-> <<0, 0>>, before |-> <<0, 0>>, steps |-> 0]

\* nothing baked, no frame drawn, no camera being smoothed
IdleBake ==
    /\ call = [onsets |-> <<>>, speed |-> 1, seed |-> NoSeed]
    /\ ret = NotCalled
    /\ prev = <<>>
    /\ ncalls = 0

IdleView ==
    /\ config = DefaultConfig
    /\ track = NoTrack
    /\ audio_time = 0
    /\ state = InitialRenderState
    /\ frame = NoFrame
    /\ nframes = 0

IdleCam == smooth = NoSmooth

NoUpdate ==
    [audio_time |-> 0, events |-> <<>>, path |-> "none", result |-> <<TRUE, TRUE, 0>>,
     log |-> <<>>, reshuffle |-> <<>>]
NoHist == [judgments |-> <<>>, dead_score |-> 0 - 1, nplays |-> 0]

\* no GeometryDashGame has been made
NoDash == <<>>

\* no game constructed
IdleGame ==
    /\ dash = NoDash
    /\ tracks_data = <<>>
    /\ modifiers = {}
    /\ autoplay = FALSE
    /\ game = <<>>
    /\ update = NoUpdate
    /\ hist = NoHist

InitBake == IdleBake /\ IdleView /\ IdleCam /\ IdleGame /\ url = <<>>

\* the first call of bake; entropy is read only when seed is None
CallBake(onsets, speed, seed, entropy) ==
    /\ ncalls = 0
    /\ call' = [onsets |-> onsets, speed |-> speed, seed |-> seed]
    /\ ret' = Bake(onsets, speed, seed, entropy)
    /\ prev' = <<>>
    /\ ncalls' = 1
    /\ UNCHANGED <<viewVars, camVars, gameVars, url>>

\* a second call of bake with the arguments of the first
CallBakeAgain(entropy) ==
    /\ ncalls = 1
    /\ ret' = Bake(call.onsets, call.speed, call.seed, entropy)
    /\ prev' = <<ret>>
    /\ ncalls' = 2
    /\ UNCHANGED <<call, viewVars, camVars, gameVars, url>>

NextBake ==
    \/ /\ ncalls = 0
       /\ \E onsets \in OnsetInputs, speed \in Speeds, seed \in Seeds, entropy \in Entropy :
              CallBake(onsets, speed, seed, entropy)
    \/ \E entropy \in Entropy : CallBakeAgain(entropy)

Spec == InitBake /\ [][NextBake]_vars

---------------------------------------------------------------------------
(* Properties of the baker *)

StrictlyIncreasing(s) == \A i \in 1..(Len(s) - 1) : s[i] < s[i + 1]

HasDuplicate(s) == \E i, j \in 1..Len(s) : i # j /\ s[i] = s[j]

\* C1: bake called twice with the same onsets, the same speed and the same
\* integer seed returns the same timeline and the same onset array.
C1_Determinism ==
    (ncalls = 2 /\ call.seed # NoSeed) => prev[1] = ret

C1_Witness ==
    ncalls = 2 /\ call.seed # NoSeed /\ Len(ret.timeline) >= 2

\* C2: consecutive segments of a returned timeline join: the end point and
\* end time of one are the start point and start time of the next.
C2_Continuity ==
    ncalls >= 1 =>
        \A i \in 1..(Len(ret.timeline) - 1) :
            /\ ret.timeline[i].p1 = ret.timeline[i + 1].p0
            /\ ret.timeline[i].t1 = ret.timeline[i + 1].t0

C2_Witness ==
    ncalls >= 1 /\ Len(ret.timeline) >= 3 /\ ret.timeline[2].p1 # ret.timeline[2].p0

\* C3: for every non-empty input the returned onset array is strictly
\* increasing and starts at 0.
C3_MonotoneFromZero ==
    (ncalls >= 1 /\ Len(call.onsets) > 0) =>
        /\ StrictlyIncreasing(ret.onsets)
        /\ ret.onsets[1] = 0

\* C4 as claimed: for every input the returned onset array has one more
\* element than the timeline has segments, and segment i spans
\* onsets[i]..onsets[i+1].
C4_LengthEveryInput ==
    ncalls >= 1 =>
        /\ Len(ret.onsets) = Len(ret.timeline) + 1
        /\ \A i \in 1..Len(ret.timeline) :
               /\ ret.timeline[i].t0 = ret.onsets[i]
               /\ ret.timeline[i].t1 = ret.onsets[i + 1]

\* C4 amended: the same for every non-empty input; for the empty input both
\* the onset array and the timeline are empty.
C4_LengthNonEmptyInput ==
    ncalls >= 1 =>
        IF Len(call.onsets) = 0
        THEN Len(ret.onsets) = 0 /\ Len(ret.timeline) = 0
        ELSE /\ Len(ret.onsets) = Len(ret.timeline) + 1
             /\ \A i \in 1..Len(ret.timeline) :
                    /\ ret.timeline[i].t0 = ret.onsets[i]
                    /\ ret.timeline[i].t1 = ret.onsets[i + 1]

C4_Witness ==
    ncalls >= 1 /\ Len(call.onsets) > 0 /\ Len(ret.timeline) >= 3

\* C5: every segment has t1 > t0, also when the input repeats a timestamp.
C5_PositiveDuration ==
    ncalls >= 1 =>
        \A i \in 1..Len(ret.timeline) : ret.timeline[i].t1 > ret.timeline[i].t0

C5_Witness ==
    ncalls >= 1 /\ HasDuplicate(call.onsets) /\ Len(ret.timeline) >= 1

\* C6: bake of the empty onset sequence returns an empty timeline and an
\* empty onset array and raises nothing, whatever the seed.
C6_EmptyInput ==
    (ncalls >= 1 /\ call.onsets = <<>>) =>
        /\ ret.timeline = <<>>
        /\ ret.onsets = <<>>
        /\ ~ret.raised

C6_Witness ==
    ncalls >= 1 /\ call.onsets = <<>> /\ call.seed # NoSeed

\* C7 as claimed: a negative timestamp or a non-monotonic sequence is
\* reported to the caller; no timeline is returned for it.
C7_ViolationReported ==
    (ncalls >= 1 /\ ~ValidInput(call.onsets)) => ret.raised

\* C7 amended: bake validates nothing.  For a negative timestamp or a
\* non-monotonic sequence it raises nothing and returns the timeline of the
\* repaired input: the input's timestamps (and 0 when the first one is
\* positive), sorted and without duplicates; a negative timestamp is kept.
C7_ViolationRepaired ==
    (ncalls >= 1 /\ ~ValidInput(call.onsets)) =>
        /\ ~ret.raised
        /\ StrictlyIncreasing(ret.onsets)
        /\ Range(ret.onsets) =
               Range(call.onsets) \cup (IF call.onsets[1] > 0 THEN {0} ELSE {})
        /\ Len(ret.timeline) = Len(ret.onsets) - 1

C7_Witness ==
    /\ ncalls >= 1
    /\ \E i \in 1..(Len(call.onsets) - 1) : call.onsets[i] > call.onsets[i + 1]
    /\ \E i \in 1..Len(call.onsets) : call.onsets[i] < 0
    /\ Len(ret.timeline) >= 2

\* C8 as claimed: (w1 + w2)/2 == p1 for every segment.  Halving and doubling
\* are exact in binary floating point, so this is w1 + w2 == 2 * p1.
C8_WallMidpointExact ==
    ncalls >= 1 =>
        \A i \in 1..Len(ret.timeline) :
            VAdd(ret.timeline[i].w1, ret.timeline[i].w2) = VMulK(ret.timeline[i].p1, 2)

\* C8 amended: the midpoint of the wall endpoints equals the hit point up to
\* floating-point rounding: in each coordinate, (w1 + w2)/2 differs from p1
\* by at most one unit in the last place of the larger endpoint.
WithinUlp(a, b, h) ==
    LET q == IF Quantum(a) > Quantum(b) THEN Quantum(a) ELSE Quantum(b)
    IN  Abs(FAdd(a, b) - 2 * h) <= 2 * q

C8_WallMidpointRounded ==
    ncalls >= 1 =>
        \A i \in 1..Len(ret.timeline) :
            \A c \in 1..2 :
                WithinUlp(ret.timeline[i].w1[c], ret.timeline[i].w2[c], ret.timeline[i].p1[c])

C8_Witness ==
    /\ ncalls >= 1
    /\ \E i \in 1..Len(ret.timeline) :
          VAdd(ret.timeline[i].w1, ret.timeline[i].w2) # VMulK(ret.timeline[i].p1, 2)

---------------------------------------------------------------------------
(* SonirRenderer._draw_viewport *)

MaxFrames == 2      \* frames drawn in one behaviour

\* audio times of a frame: from before the earliest onset to past the latest
QueryTimes == (MinTime - 1)..(MaxTime + 1)
\* frame deltas in 1/1000 s: a 60 fps frame and a stalled one
Dts == {16, 500}

WIDTH == 1280
HEIGHT == 720
CAM_LOOKAHEAD == 15         \* 0.15, in 1/100
LERP_FACTOR == 8            \* 0.08, in 1/100
PARTICLE_COUNT == 8
PARTICLE_SPEED == 200
PARTICLE_DECAY == 2         \* 2.0 life per second, life in 1/1000
TRAIL_LENGTH == 15
SHAKE_DECAY == 5            \* 5.0 per second, shake in 1/1000
SHAKE_THRESHOLD == 91       \* 0.91, in 1/Scale
SHAKE_BUMP == 600           \* 0.6, in 1/1000
SHAKE_MAX == 1000           \* 1.0, in 1/1000
LIFE_FULL == 1000           \* 1.0, in 1/1000

\* a * n / d in floating point
FMulFrac(a, n, d) == Fl(RoundDiv(a * n, d))
VMulFrac(u, n, d) == <<FMulFrac(u[1], n, d), FMulFrac(u[2], n, d)>>
VNeg(u) == <<0 - u[1], 0 - u[2]>>

\* np.searchsorted(a, v) (side='left'): the number of elements of the sorted
\* array a that are < v, by bisection over the half-open range lo..hi (0-based)
RECURSIVE BisectRight(_, _, _, _)
BisectRight(a, v, lo, hi) ==
    IF lo >= hi THEN lo
    ELSE LET mid == (lo + hi) \div 2
         IN  IF a[mid + 1] <= v THEN BisectRight(a, v, mid + 1, hi)
             ELSE BisectRight(a, v, lo, mid)

RECURSIVE BisectLeft(_, _, _, _)
BisectLeft(a, v, lo, hi) ==
    IF lo >= hi THEN lo
    ELSE LET mid == (lo + hi) \div 2
         IN  IF a[mid + 1] < v THEN BisectLeft(a, v, mid + 1, hi)
             ELSE BisectLeft(a, v, lo, mid)

SearchsortedRight(a, v) == BisectRight(a, v, 0, Len(a))
Searchsorted(a, v) == BisectLeft(a, v, 0, Len(a))

\* idx = np.searchsorted(track['onsets'], audio_time) - 1; if idx < 0: idx = 0
ActiveIndexUnclamped(onsets, t) == Searchsorted(onsets, t) - 1
ActiveIndex(onsets, t) ==
    LET idx == Searchsorted(onsets, t) - 1
    IN  IF idx < 0 THEN 0 ELSE idx

\* if 0 <= idx < len(timeline)
IsActive(idx, timeline) == 0 <= idx /\ idx < Len(timeline)

\* timeline[i] raises IndexError unless -len <= i < len
InList(i, timeline) == 0 - Len(timeline) <= i /\ i < Len(timeline)

\* the segment timeline[idx] (idx is 0-based)
Seg(timeline, idx) == timeline[idx + 1]

\* progress = (audio_time - seg['t0']) / duration if duration > 0 else 0, in 1/Scale
Progress(seg, t) ==
    LET duration == seg.t1 - seg.t0
    IN  IF duration > 0 THEN RoundDiv((t - seg.t0) * Scale, duration) ELSE 0

\* the shake and particle update at the top of the frame
DecayShakeUnfloored(shake, dt) ==
    IF config.shake THEN shake - SHAKE_DECAY * dt ELSE shake
DecayShake(shake, dt) ==
    IF config.shake
    THEN (IF shake - SHAKE_DECAY * dt > 0 THEN shake - SHAKE_DECAY * dt ELSE 0)
    ELSE shake

MoveParticle(p, dt) ==
    [pos |-> VAdd(p.pos, VMulFrac(p.vel, dt, 1000)), vel |-> p.vel,
     life |-> p.life - PARTICLE_DECAY * dt, shares |-> p.shares]

\* p[0] += p[1] * dt adds in place: when the array of a particle is the p1
\* array of a segment (shares is the index of the segment), the segment moves
RECURSIVE MoveShared(_, _, _)
MoveShared(timeline, particles, dt) ==
    IF particles = <<>> THEN timeline
    ELSE LET p == Head(particles)
         IN  MoveShared(IF p.shares >= 0
                        THEN [timeline EXCEPT ![p.shares + 1].p1 = VAdd(@, VMulFrac(p.vel, dt, 1000))]
                        ELSE timeline,
                        Tail(particles), dt)

RECURSIVE AliveParticles(_, _)
AliveParticles(particles, dt) ==
    IF particles = <<>> THEN <<>>
    ELSE LET p == MoveParticle(Head(particles), dt)
             rest == AliveParticles(Tail(particles), dt)
         IN  IF p.life > 0 THEN <<p>> \o rest ELSE rest

UpdateParticles(particles, dt) ==
    IF config.particles THEN AliveParticles(particles, dt) ELSE particles

\* hit_pos.copy(): the array a new particle holds is its own (no segment
\* shares it), not the p1 array of segment idx
HitPosShared(idx) == idx
HitPosCopy(idx) == 0 - 1

\* the particles of one hit: angle and speed of the k-th one are drawn from
\* the random module, whose state is r
SpawnParticles(hit_pos, idx, r) ==
    [k \in 1..PARTICLE_COUNT |->
        LET angle == (r + 5 * k) % NDirs
            speed == 50 + ((r + k) % 4) * ((PARTICLE_SPEED - 50) \div 3)
        IN  [pos |-> hit_pos, vel |-> VMulK(UnitVec(angle), speed), life |-> LIFE_FULL,
             shares |-> HitPosCopy(idx)]]

\* the wall loop reads timeline[i] for i in range(max(0, idx - 5), min(len, idx + 15))
WallReads(idx, timeline) ==
    LET draw_range_start == IF idx - 5 > 0 THEN idx - 5 ELSE 0
        draw_range_end == IF Len(timeline) < idx + 15 THEN Len(timeline) ELSE idx + 15
    IN  draw_range_start..(draw_range_end - 1)

\* state["trail"].append(sq_world); pop(0) when longer than TRAIL_LENGTH
PushTrailDropNewest(trail, sq_world) ==
    IF Len(trail) >= TRAIL_LENGTH THEN trail ELSE Append(trail, sq_world)
PushTrail(trail, sq_world) ==
    LET longer == Append(trail, sq_world)
    IN  IF Len(longer) > TRAIL_LENGTH THEN Tail(longer) ELSE longer

center == <<(WIDTH * Scale) \div 2, (HEIGHT * Scale) \div 2>>

\* one call of _draw_viewport(surface, rect, track, state, audio_time, dt);
\* r is the state of the random module
\* state["cam"] += (target_cam - state["cam"]) * Config.LERP_FACTOR
SmoothCamOvershoot(cam, target_cam) ==
    VAdd(cam, VMulFrac(VSub(target_cam, cam), 100 + LERP_FACTOR, 100))
SmoothCam(cam, target_cam) ==
    VAdd(cam, VMulFrac(VSub(target_cam, cam), LERP_FACTOR, 100))

\* if active_seg and progress > SHAKE_THRESHOLD and state["last_hit_idx"] != idx
HitTriggerUnguarded(active, progress, idx, last_hit_idx) ==
    active /\ progress > SHAKE_THRESHOLD
HitTrigger(active, progress, idx, last_hit_idx) ==
    active /\ progress > SHAKE_THRESHOLD /\ idx # last_hit_idx

\* target_cam = state["cam"], replaced by center - sq_world + lookahead when
\* a segment is active
TargetCamRecentre(active, follow, cam) == IF active THEN follow ELSE center
TargetCam(active, follow, cam) == IF active THEN follow ELSE cam

DrawTrack(t, dt, r) ==
    /\ nframes' = nframes + 1
    /\ audio_time' = t
    /\ IF track.timeline = <<>>
       THEN \* if not timeline: return
            /\ frame' = NoFrame
            /\ UNCHANGED <<state, track>>
       ELSE LET timeline == track.timeline
                idx == ActiveIndex(track.onsets, t)
                shake1 == DecayShake(state.shake, dt)
                particles1 == UpdateParticles(state.particles, dt)
                active == IsActive(idx, timeline)
                seg == Seg(timeline, idx)
                duration == seg.t1 - seg.t0
                progress == Progress(seg, t)
                sq_world == VAdd(seg.p0, VMulFrac(VSub(seg.p1, seg.p0), progress, Scale))
                velocity == IF duration > 0
                            THEN VMulFrac(VSub(seg.p1, seg.p0), 1, duration)
                            ELSE <<0, 0>>
                lookahead == IF config.cinema_cam
                             THEN VNeg(VMulFrac(velocity, CAM_LOOKAHEAD, 100))
                             ELSE <<0, 0>>
                target_cam == TargetCam(active, VAdd(VSub(center, sq_world), lookahead), state.cam)
                hit == HitTrigger(active, progress, idx, state.last_hit_idx)
                shake2 == IF hit /\ config.shake
                          THEN (IF shake1 + SHAKE_BUMP < SHAKE_MAX
                                THEN shake1 + SHAKE_BUMP ELSE SHAKE_MAX)
                          ELSE shake1
                particles2 == IF hit /\ config.particles
                              THEN particles1 \o SpawnParticles(seg.p1, idx, r)
                              ELSE particles1
                cam2 == SmoothCam(state.cam, target_cam)
                trail2 == IF config.trails /\ active
                          THEN PushTrail(state.trail, sq_world)
                          ELSE state.trail
                reads == (IF active THEN {idx} ELSE {}) \cup WallReads(idx, timeline)
            IN  /\ state' = [cam |-> cam2, particles |-> particles2, trail |-> trail2,
                             shake |-> shake2,
                             last_hit_idx |-> IF hit THEN idx ELSE state.last_hit_idx]
                /\ frame' = [looked_up |-> TRUE, idx |-> idx, active |-> active,
                             progress |-> IF active THEN progress ELSE 0,
                             fired |-> hit, reads |-> reads,
                             raised |-> \E i \in reads : ~InList(i, timeline),
                             popped |-> /\ config.trails /\ active
                                        /\ Len(state.trail) >= TRAIL_LENGTH]
                /\ track' = [track EXCEPT !.timeline =
                                IF config.particles
                                THEN MoveShared(timeline, state.particles, dt)
                                ELSE timeline]

\* a frame of a renderer that is not a game
DrawViewport(t, dt, r) ==
    /\ DrawTrack(t, dt, r)
    /\ UNCHANGED <<bakeVars, config, camVars, gameVars, url>>

\* the --no-shake, --no-particles, --no-trails and --no-cam switches of the CLI
Configs ==
    {DefaultConfig,
     [shake |-> FALSE, particles |-> FALSE, trails |-> FALSE, cinema_cam |-> FALSE]}

\* the tracks a viewport is built for: what bake returned for some input
BakedTracks ==
    {[timeline |-> b.timeline, onsets |-> b.onsets] :
        b \in {Bake(onsets, 1, 0, 0) : onsets \in OnsetInputs}}

InitView ==
    /\ url = <<>>
    /\ IdleBake
    /\ IdleCam
    /\ IdleGame
    /\ config \in Configs
    /\ track \in BakedTracks
    /\ audio_time = 0
    /\ state = InitialRenderState
    /\ frame = NoFrame
    /\ nframes = 0

NextView ==
    /\ nframes < MaxFrames
    /\ \E t \in QueryTimes, dt \in Dts, r \in Entropy : DrawViewport(t, dt, r)

SpecView == InitView /\ [][NextView]_vars

---------------------------------------------------------------------------
(* Properties of the active-segment lookup *)

FirstOnset == track.onsets[1]
LastOnset == track.onsets[Len(track.onsets)]

\* onsets[i] and onsets[i+1] for a 0-based segment index i
OnsetAt(i) == track.onsets[i + 1]

C10_OutOfRangeClamped ==
    frame.looked_up =>
        /\ audio_time < FirstOnset => (frame.idx = 0 /\ ~frame.raised)
        /\ audio_time > LastOnset =>
              /\ frame.idx = Len(track.timeline)
              /\ ~frame.active
              /\ frame.idx \notin frame.reads
              /\ ~frame.raised

C10_Witness ==
    /\ frame.looked_up
    /\ audio_time > LastOnset
    /\ frame.idx = Len(track.timeline)
    /\ Len(track.timeline) >= 2
    /\ frame.reads # {}

---------------------------------------------------------------------------
(* Properties of one frame of the animator *)

\* C11: in every frame that has an active segment, whatever the audio time
\* (times before the first onset included), the progress used to interpolate
\* the position lies in [0, 1]; a segment of duration 0 gives progress 0.
C11_ProgressInUnitInterval ==
    (frame.looked_up /\ frame.active) =>
        /\ 0 <= frame.progress
        /\ frame.progress <= Scale
        /\ LET seg == Seg(track.timeline, frame.idx)
           IN  seg.t1 = seg.t0 => frame.progress = 0

---------------------------------------------------------------------------
(* The camera smoothing step repeated with a constant target *)

MaxSmoothSteps == 6     \* smoothing steps taken per behaviour

\* camera offsets around the viewport centre and around the origin, each a
\* value the floating-point format represents
CamOffsets == {0 - 48, 0, 16, 160}
CamTargets == {center, <<0, 0>>}
CamStarts(target) ==
    {<<Fl(target[1] + dx), Fl(target[2] + dy)>> : dx \in CamOffsets, dy \in CamOffsets}

InitCam ==
    /\ url = <<>>
    /\ IdleBake
    /\ IdleView
    /\ IdleGame
    /\ \E target \in CamTargets : \E cam \in CamStarts(target) :
          smooth = [cam |-> cam, target |-> target, before |-> cam, steps |-> 0]

\* one more frame with the same target_cam
SmoothStep ==
    /\ smooth.steps < MaxSmoothSteps
    /\ smooth' = [smooth EXCEPT !.cam = SmoothCam(smooth.cam, smooth.target),
                                !.before = smooth.cam,
                                !.steps = smooth.steps + 1]
    /\ UNCHANGED <<bakeVars, viewVars, gameVars, url>>

NextCam == SmoothStep

SpecCam == InitCam /\ [][NextCam]_vars

\* |a - b|^2, compared instead of |a - b|
DistSq(a, b) == (a[1] - b[1]) * (a[1] - b[1]) + (a[2] - b[2]) * (a[2] - b[2])

\* the camera is not on the other side of the target than it was, on axis k
NotPast(k) ==
    /\ smooth.before[k] <= smooth.target[k] => smooth.cam[k] <= smooth.target[k]
    /\ smooth.before[k] >= smooth.target[k] => smooth.cam[k] >= smooth.target[k]

\* C12 as claimed: every smoothing step with a constant target strictly
\* decreases |cam - target| and never moves the camera past the target on
\* either axis.
C12_StrictlyCloser ==
    smooth.steps > 0 =>
        /\ DistSq(smooth.cam, smooth.target) < DistSq(smooth.before, smooth.target)
        /\ NotPast(1) /\ NotPast(2)

\* C12 amended: a smoothing step with a constant target never increases
\* |cam - target| and never moves the camera past the target on either axis;
\* it strictly decreases |cam - target| exactly when it changes cam at all,
\* which it does not when cam equals the target or when the increment
\* (target - cam) * LERP_FACTOR is lost in the rounding of the addition.
C12_NeverFartherNeverPast ==
    smooth.steps > 0 =>
        /\ DistSq(smooth.cam, smooth.target) <= DistSq(smooth.before, smooth.target)
        /\ NotPast(1) /\ NotPast(2)
        /\ smooth.cam # smooth.before =>
              DistSq(smooth.cam, smooth.target) < DistSq(smooth.before, smooth.target)
        /\ smooth.before = smooth.target => smooth.cam = smooth.target

\* a camera that moved closer for some steps and then stopped short of the target
C12_Witness ==
    /\ smooth.steps >= 3
    /\ smooth.cam = smooth.before
    /\ smooth.cam # smooth.target

---------------------------------------------------------------------------
(* Playback with seeking: frames at arbitrary times, one frame rate *)

MaxReplayFrames == 3    \* frames drawn per behaviour

InitReplay ==
    /\ url = <<>>
    /\ IdleBake
    /\ IdleCam
    /\ IdleGame
    /\ config \in Configs
    /\ track \in BakedTracks
    /\ audio_time = 0
    /\ state = InitialRenderState
    /\ frame = NoFrame
    /\ nframes = 0

NextReplay ==
    /\ nframes < MaxReplayFrames
    /\ \E t \in QueryTimes : DrawViewport(t, 16, 0)

SpecReplay == InitReplay /\ [][NextReplay]_vars

\* the latest frame was drawn at a time inside the trigger window of its segment
InWindow == frame.looked_up /\ frame.active /\ frame.progress > SHAKE_THRESHOLD

\* the shake bump and the particle spawn of a frame, as far as Config enables them
EffectApplied ==
    /\ config.shake => state'.shake >= SHAKE_BUMP
    /\ config.particles => Len(state'.particles) >= PARTICLE_COUNT
NoEffectApplied ==
    /\ state'.shake <= state.shake
    /\ Len(state'.particles) <= Len(state.particles)

\* C13 as claimed: of the calls of a run of consecutive calls inside the
\* trigger window of one segment, the first fires the hit effect and none of
\* the later ones does.
C13_FirstCallFires ==
    [][InWindow' =>
          /\ frame'.fired <=> ~(InWindow /\ frame.idx = frame'.idx)
          /\ frame'.fired => EffectApplied
          /\ ~frame'.fired => NoEffectApplied]_vars

\* C13 amended: a call inside the trigger window of segment i fires the hit
\* effect exactly when the last-triggered index is not i, and leaves it at i;
\* so a run of consecutive calls inside the window fires at most once, on its
\* first call, and fires there unless segment i was already the last one to
\* fire (playback went back inside segment i and reached its window again).
C13_FiresUnlessLastTriggered ==
    [][InWindow' =>
          /\ frame'.fired <=> state.last_hit_idx # frame'.idx
          /\ state'.last_hit_idx = frame'.idx
          /\ (InWindow /\ frame.idx = frame'.idx) => ~frame'.fired
          /\ frame'.fired => EffectApplied
          /\ ~frame'.fired => NoEffectApplied]_vars

\* a second call inside the same trigger window, which did not fire
C13_Witness ==
    /\ nframes >= 2
    /\ InWindow
    /\ ~frame.fired
    /\ state.last_hit_idx = frame.idx
    /\ config.particles /\ Len(state.particles) = PARTICLE_COUNT

\* C14: a frame drawn while no segment is active (empty timeline, or audio
\* time past the end of the last segment) leaves the smoothed camera offset
\* and the last-triggered index as they were, bumps no shake and spawns no
\* particle.
C14_IdleFrameHoldsCamera ==
    [][(nframes' = nframes + 1 /\ ~frame'.active) =>
          /\ state'.cam = state.cam
          /\ state'.last_hit_idx = state.last_hit_idx
          /\ ~frame'.fired
          /\ NoEffectApplied]_vars

\* a frame past the end of the last segment, after a frame that moved the
\* camera and fired
C14_Witness ==
    /\ nframes = 2
    /\ frame.looked_up /\ ~frame.active
    /\ audio_time > LastOnset
    /\ state.cam # <<0, 0>>
    /\ state.last_hit_idx >= 0

---------------------------------------------------------------------------
(* RhythmGame (sonir/game.py).  Audio times and onsets are counted in      *)
(* ticks of 20 ms, health in 1/100 of a health point.                      *)

MaxPlays == 3           \* _handle_input calls per behaviour that get to the play block

PERFECT == 2            \* 0.04 s
GOOD == 5               \* 0.10 s
BAD == 9                \* 0.18 s
MAX_HEALTH == 10000     \* 100.0
DRAIN == 8              \* 5.0 * 0.016
MISS_LOSS == 1000       \* 10.0
EXTRA_LOSS == 400       \* 4.0
DEATH_LOSS == 10000     \* 100.0
PERFECT_SCORE == 300
PERFECT_HEAL == 600     \* 6.0
GOOD_SCORE == 100
GOOD_HEAL == 300        \* 3.0
OK_SCORE == 50
OK_HEAL == 50           \* 0.5
RESTART == 0 - 999999   \* the offset_change that asks the caller to restart the audio
NoOnset == 0 - 1

\* list(tracks_data.keys()): the tracks in the order of the dict
TrackOrder == <<"drums", "bass">>
Names == SelectSeq(TrackOrder, LAMBDA n : n \in DOMAIN tracks_data)
NameSet == DOMAIN tracks_data

\* get_keys_for_slot(i, total), for one and for two tracks
SlotKeys(i, total) ==
    IF total = 1 THEN {"K_SPACE", "K_f", "K_j"}
    ELSE IF total = 2 THEN (IF i = 0 THEN {"K_d", "K_LEFT"} ELSE {"K_k", "K_RIGHT"})
    ELSE {}

\* self.key_map[key] as _update_key_map rebuilds it from track_slot_map: the
\* tracks whose slot has the key, in the order of the dict
KeyMap(slot_map, key) ==
    SelectSeq(Names, LAMBDA n : key \in SlotKeys(slot_map[n], Len(Names)))

\* _update_key_map: self.key_map rebuilt from the track_slot_map of the game
UpdateKeyMapSkipped(g) == g
UpdateKeyMap(g) ==
    [g EXCEPT !.key_map =
        [k \in UNION {SlotKeys(g.track_slot_map[n], Len(Names)) : n \in NameSet}
            |-> KeyMap(g.track_slot_map, k)]]

\* RhythmGame.__init__; focus is random.choice(sorted_names) under "focus"
NewGame(focus) ==
    UpdateKeyMap(
        [score |-> 0, combo |-> 0, max_combo |-> 0, health |-> MAX_HEALTH,
         game_over |-> FALSE, in_countdown |-> TRUE,
         processed_onsets |-> [n \in NameSet |-> {}],
         track_indices |-> [n \in NameSet |-> 0],
         track_slot_map |-> [n \in NameSet |-> (CHOOSE k \in 1..Len(Names) : Names[k] = n) - 1],
         key_map |-> <<>>,
         focus_mode |-> focus])

\* loss = 100.0 if "death" in self.modifiers else <base>
LossOfBase(base) == base
Loss(base) == IF "death" \in modifiers THEN DEATH_LOSS ELSE base
Floor0(h) == IF h > 0 THEN h ELSE 0
CapMaxNone(h) == h
CapMax(h) == IF h < MAX_HEALTH THEN h ELSE MAX_HEALTH

\* the part of the game a judgment of track name reads and writes
Snap(g, name) ==
    [health |-> g.health, combo |-> g.combo, max_combo |-> g.max_combo, score |-> g.score,
     cursor |-> g.track_indices[name], resolved |-> g.processed_onsets[name],
     indices |-> g.track_indices, processed |-> g.processed_onsets]

\* r is the game while _handle_input runs, with the steps taken so far
Logged(r, kind, name, onset, d, via, g1) ==
    [g |-> g1,
     log |-> Append(r.log, [kind |-> kind, track |-> name, onset |-> onset, d |-> d, via |-> via,
                            before |-> Snap(r.g, name), after |-> Snap(g1, name)])]

\* _trigger_miss
TriggerMissKeepCombo(g) ==
    [g EXCEPT !.health = Floor0(g.health - Loss(MISS_LOSS))]
TriggerMiss(g) ==
    [g EXCEPT !.health = Floor0(g.health - Loss(MISS_LOSS)), !.combo = 0]

\* the "X" branches of _process_hit
ExtraInputKeepCombo(g) ==
    [g EXCEPT !.health = Floor0(g.health - Loss(EXTRA_LOSS))]
ExtraInput(g) ==
    [g EXCEPT !.health = Floor0(g.health - Loss(EXTRA_LOSS)), !.combo = 0]

\* the three scored branches of _process_hit
TierInclusive(diff) ==
    IF diff <= PERFECT THEN [score |-> PERFECT_SCORE, heal |-> PERFECT_HEAL]
    ELSE IF diff <= GOOD THEN [score |-> GOOD_SCORE, heal |-> GOOD_HEAL]
    ELSE [score |-> OK_SCORE, heal |-> OK_HEAL]
Tier(diff) ==
    IF diff < PERFECT THEN [score |-> PERFECT_SCORE, heal |-> PERFECT_HEAL]
    ELSE IF diff < GOOD THEN [score |-> GOOD_SCORE, heal |-> GOOD_HEAL]
    ELSE [score |-> OK_SCORE, heal |-> OK_HEAL]

ScoreHitKeepMax(g, name, closest_time, diff) ==
    [g EXCEPT !.health = CapMax(g.health + Tier(diff).heal),
              !.score = g.score + Tier(diff).score,
              !.combo = g.combo + 1,
              !.processed_onsets[name] = @ \cup {closest_time}]
ScoreHit(g, name, closest_time, diff) ==
    LET tier == Tier(diff)
        combo == g.combo + 1
    IN  [g EXCEPT !.health = CapMax(g.health + tier.heal),
                  !.score = g.score + tier.score,
                  !.combo = combo,
                  !.max_combo = IF combo > g.max_combo THEN combo ELSE g.max_combo,
                  !.processed_onsets[name] = @ \cup {closest_time}]

\* min(valid_candidates, key=lambda x: abs(x - audio_time)): the first of the
\* closest ones
ClosestFirst(valid, t) == valid[1]
Closest(valid, t) ==
    IF Len(valid) = 1 THEN valid[1]
    ELSE IF Abs(valid[2] - t) < Abs(valid[1] - t) THEN valid[2] ELSE valid[1]

\* valid_candidates = [c for c in candidates if c not in self.processed_onsets[track_name]]
ValidCandidatesAll(candidates, processed) == candidates
ValidCandidates(candidates, processed) ==
    SelectSeq(candidates, LAMBDA c : c \notin processed)

\* _process_hit(track_name, audio_time)
ProcessHit(r, name, t, via) ==
    LET g == r.g
        onsets == tracks_data[name]
        idx == Searchsorted(onsets, t)
        candidates == (IF idx < Len(onsets) THEN <<onsets[idx + 1]>> ELSE <<>>)
                      \o (IF idx > 0 THEN <<onsets[idx]>> ELSE <<>>)
        valid_candidates == ValidCandidates(candidates, g.processed_onsets[name])
    IN  IF candidates = <<>> THEN r
        ELSE IF valid_candidates = <<>>
        THEN Logged(r, "extra", name, NoOnset, 0 - 1, via, ExtraInput(g))
        ELSE LET closest_time == Closest(valid_candidates, t)
                 diff == Abs(closest_time - t)
             IN  IF diff < BAD
                 THEN Logged(r, "hit", name, closest_time, diff, via,
                             ScoreHit(g, name, closest_time, diff))
                 ELSE Logged(r, "extra", name, closest_time, diff, via, ExtraInput(g))

\* the autoplay loop without the look at processed_onsets
RECURSIVE AutoplayUnchecked(_, _, _)
AutoplayUnchecked(r, names, t) ==
    IF names = <<>> THEN r
    ELSE LET name == Head(names)
             onsets == tracks_data[name]
             idx == Searchsorted(onsets, t)
             due == /\ idx < Len(onsets)
                    /\ Abs(onsets[idx + 1] - t) < PERFECT
         IN  AutoplayUnchecked(IF due THEN ProcessHit(r, name, t, "autoplay") ELSE r,
                               Tail(names), t)

\* the autoplay loop
RECURSIVE Autoplay(_, _, _)
Autoplay(r, names, t) ==
    IF names = <<>> THEN r
    ELSE LET name == Head(names)
             onsets == tracks_data[name]
             idx == Searchsorted(onsets, t)
             due == /\ idx < Len(onsets)
                    /\ Abs(onsets[idx + 1] - t) < PERFECT
                    /\ onsets[idx + 1] \notin r.g.processed_onsets[name]
         IN  Autoplay(IF due THEN ProcessHit(r, name, t, "autoplay") ELSE r, Tail(names), t)

\* if audio_time > note_time + self.BAD
PassedLate(t, note_time) == t > note_time + 2 * BAD
Passed(t, note_time) == t > note_time + BAD

\* the while loop with the cursor moved past an onset that is not marked
RECURSIVE SweepTrackUnmarked(_, _, _)
SweepTrackUnmarked(r, name, t) ==
    LET g == r.g
        onsets == tracks_data[name]
        curr_idx == g.track_indices[name]
    IN  IF curr_idx < Len(onsets) /\ Passed(t, onsets[curr_idx + 1])
        THEN LET note_time == onsets[curr_idx + 1]
                 unresolved == note_time \notin g.processed_onsets[name]
                 g1 == IF unresolved THEN TriggerMiss(g) ELSE g
                 g2 == [g1 EXCEPT !.track_indices[name] = @ + 1]
             IN  SweepTrackUnmarked(Logged(r, IF unresolved THEN "miss" ELSE "skip", name,
                                           note_time, t - note_time, "sweep", g2),
                                    name, t)
        ELSE r

\* the while loop of the miss detection, for one track
RECURSIVE SweepTrack(_, _, _)
SweepTrack(r, name, t) ==
    LET g == r.g
        onsets == tracks_data[name]
        curr_idx == g.track_indices[name]
    IN  IF curr_idx < Len(onsets) /\ Passed(t, onsets[curr_idx + 1])
        THEN LET note_time == onsets[curr_idx + 1]
                 unresolved == note_time \notin g.processed_onsets[name]
                 g1 == IF unresolved
                       THEN [TriggerMiss(g) EXCEPT !.processed_onsets[name] = @ \cup {note_time}]
                       ELSE g
                 g2 == [g1 EXCEPT !.track_indices[name] = @ + 1]
             IN  SweepTrack(Logged(r, IF unresolved THEN "miss" ELSE "skip", name, note_time,
                                   t - note_time, "sweep", g2),
                            name, t)
        ELSE r

\* the miss detection with the tracks out of focus left alone
RECURSIVE MissDetectionFocused(_, _, _)
MissDetectionFocused(r, names, t) ==
    IF names = <<>> THEN r
    ELSE LET skipped == /\ "focus" \in modifiers
                        /\ r.g.focus_mode # "all"
                        /\ Head(names) # r.g.focus_mode
         IN  MissDetectionFocused(IF skipped THEN r ELSE SweepTrack(r, Head(names), t),
                                  Tail(names), t)

\* the miss detection, track after track
RECURSIVE MissDetection(_, _, _)
MissDetection(r, names, t) ==
    IF names = <<>> THEN r
    ELSE MissDetection(SweepTrack(r, Head(names), t), Tail(names), t)

\* the assignments the chaos shuffle can produce: with more than one slot any
\* permutation of the slots other than the current one, else the only one
ShufflesOnce(slot_map) ==
    {m \in [NameSet -> 0..(Len(Names) - 1)] : \A a, b \in NameSet : a # b => m[a] # m[b]}
Shuffles(slot_map) ==
    IF Len(Names) > 1
    THEN {m \in [NameSet -> 0..(Len(Names) - 1)] :
             /\ \A a, b \in NameSet : a # b => m[a] # m[b]
             /\ m # slot_map}
    ELSE {[n \in NameSet |-> 0]}

\* what the focus switch can choose: a track other than the focused one, or
\* the focus as it is when there is no other
FocusOptions(focus_mode) ==
    IF NameSet \ {focus_mode} # {} THEN NameSet \ {focus_mode} ELSE {focus_mode}

\* for track_name in target_tracks, of the input loop
RECURSIVE HitTargetsUnfocused(_, _, _)
HitTargetsUnfocused(r, target_tracks, t) ==
    IF target_tracks = <<>> THEN r
    ELSE HitTargetsUnfocused(ProcessHit(r, Head(target_tracks), t, "key"), Tail(target_tracks), t)
RECURSIVE HitTargets(_, _, _)
HitTargets(r, target_tracks, t) ==
    IF target_tracks = <<>> THEN r
    ELSE LET track_name == Head(target_tracks)
             skipped == /\ "focus" \in modifiers
                        /\ r.g.focus_mode # "all"
                        /\ track_name # r.g.focus_mode
         IN  HitTargets(IF skipped THEN r ELSE ProcessHit(r, track_name, t, "key"),
                        Tail(target_tracks), t)

\* for event in events, of the input loop; every event is a KEYDOWN
RECURSIVE InputLoop(_, _, _)
InputLoop(r, events, t) ==
    IF events = <<>> THEN r
    ELSE InputLoop(IF Head(events) \in DOMAIN r.g.key_map
                   THEN HitTargets(r, r.g.key_map[Head(events)], t)
                   ELSE r,
                   Tail(events), t)

IsQuit(key) == key = "K_ESCAPE"
HasQuit(events) == \E i \in 1..Len(events) : IsQuit(events[i])

\* the event loop of the game-over branch: the first quit or K_r decides
FirstDecisiveAnyKey(events) ==
    LET S == {i \in 1..Len(events) : IsQuit(events[i])}
    IN  IF S # {} THEN events[Min(S)] ELSE IF events # <<>> THEN "K_r" ELSE "none"
FirstDecisive(events) ==
    LET S == {i \in 1..Len(events) : IsQuit(events[i]) \/ events[i] = "K_r"}
    IN  IF S = {} THEN "none" ELSE events[Min(S)]

\* the restart of the game-over branch
Restarted(g) ==
    [g EXCEPT !.health = MAX_HEALTH, !.score = 0, !.combo = 0,
              !.game_over = FALSE, !.in_countdown = TRUE,
              !.processed_onsets = [n \in NameSet |-> {}],
              !.track_indices = [n \in NameSet |-> 0]]

\* the block without the passive drain
PlayUndrained(g, events, t, chaos_due, focus_due, shuffle, choice) ==
    InputLoop(MissDetection([g |-> g, log |-> <<>>], Names, t), events, t)

\* the block with the input loop moved in front of the miss detection
PlayInputFirst(g, events, t, chaos_due, focus_due, shuffle, choice) ==
    LET r1 == InputLoop([g |-> [g EXCEPT !.health = Floor0(g.health - DRAIN)], log |-> <<>>],
                        events, t)
        r2 == IF autoplay THEN Autoplay(r1, Names, t) ELSE r1
    IN  MissDetection(r2, Names, t)

\* the block under "if not new_paused and running and not self.game_over",
\* past the health check: drain, autoplay, miss detection, modifiers, input
Play(g, events, t, chaos_due, focus_due, shuffle, choice) ==
    LET r0 == [g |-> g, log |-> <<>>]
        r1 == [g |-> [g EXCEPT !.health = Floor0(g.health - DRAIN)],
               log |-> <<[kind |-> "drain", track |-> "all", onset |-> NoOnset, d |-> 0 - 1,
                          via |-> "update",
                          before |-> [health |-> g.health, combo |-> g.combo,
                                      max_combo |-> g.max_combo, score |-> g.score,
                                      cursor |-> 0, resolved |-> {},
                                      indices |-> g.track_indices,
                                      processed |-> g.processed_onsets],
                          after |-> [health |-> Floor0(g.health - DRAIN), combo |-> g.combo,
                                     max_combo |-> g.max_combo, score |-> g.score,
                                     cursor |-> 0, resolved |-> {},
                                     indices |-> g.track_indices,
                                     processed |-> g.processed_onsets]]>>]
        r2 == IF autoplay THEN Autoplay(r1, Names, t) ELSE r1
        r3 == MissDetection(r2, Names, t)
        r4 == IF "chaos" \in modifiers /\ chaos_due
              THEN [r3 EXCEPT !.g = UpdateKeyMap([r3.g EXCEPT !.track_slot_map = shuffle])]
              ELSE r3
        r5 == IF "focus" \in modifiers /\ focus_due
              THEN [r4 EXCEPT !.g.focus_mode = choice]
              ELSE r4
    IN  InputLoop(r5, events, t)

\* the judgments of a log, and the score when health first was 0 in it
Judgments(log) ==
    LET judged == SelectSeq(log, LAMBDA e : e.kind \in {"hit", "miss"})
    IN  [i \in 1..Len(judged) |->
            [track |-> judged[i].track, onset |-> judged[i].onset, kind |-> judged[i].kind]]

DeadScore(dead_score, log) ==
    LET Z == {i \in 1..Len(log) : log[i].after.health = 0}
    IN  IF dead_score # 0 - 1 THEN dead_score
        ELSE IF Z = {} THEN 0 - 1
        ELSE log[Min(Z)].after.score

\* RhythmGame._handle_input(events, audio_time, paused).  sup is what
\* SonirRenderer._handle_input returned: [running, paused, offset]
Outcome(events, t, sup, countdown_done, chaos_due, focus_due, shuffle, choice) ==
    LET counting == game.in_countdown /\ ~HasQuit(events) /\ ~countdown_done
        g0 == IF game.in_countdown /\ ~HasQuit(events) /\ countdown_done
              THEN [game EXCEPT !.in_countdown = FALSE]
              ELSE game
        new_paused == IF game.in_countdown THEN FALSE ELSE sup.paused
        decisive == FirstDecisive(events)
        played == Play(g0, events, t, chaos_due, focus_due, shuffle, choice)
    IN  IF game.in_countdown /\ HasQuit(events)
               THEN [g |-> game, path |-> "quit", result |-> <<FALSE, TRUE, 0>>,
                          log |-> <<>>, reshuffle |-> <<>>]
               ELSE IF counting
               THEN [g |-> game, path |-> "countdown", result |-> <<TRUE, TRUE, 0>>,
                          log |-> <<>>, reshuffle |-> <<>>]
               ELSE IF g0.game_over
               THEN (IF IsQuit(decisive)
                     THEN [g |-> g0, path |-> "quit", result |-> <<FALSE, TRUE, 0>>,
                          log |-> <<>>, reshuffle |-> <<>>]
                     ELSE IF decisive = "K_r"
                     THEN [g |-> Restarted(g0), path |-> "restart",
                           result |-> <<TRUE, TRUE, RESTART>>,
                          log |-> <<>>, reshuffle |-> <<>>]
                     ELSE [g |-> g0, path |-> "over", result |-> <<TRUE, TRUE, 0>>,
                          log |-> <<>>, reshuffle |-> <<>>])
               ELSE IF ~new_paused /\ sup.running
               THEN (IF g0.health <= 0
                     THEN [g |-> [g0 EXCEPT !.game_over = TRUE, !.health = 0], path |-> "dead",
                           result |-> <<TRUE, TRUE, 0>>,
                          log |-> <<>>, reshuffle |-> <<>>]
                     ELSE [g |-> played.g, path |-> "play",
                           result |-> <<sup.running, new_paused,
                                        IF sup.offset = RESTART THEN RESTART ELSE 0>>,
                           log |-> played.log,
                           reshuffle |-> IF "chaos" \in modifiers /\ chaos_due
                                         THEN <<[before |-> g0.track_slot_map,
                                                 after |-> played.g.track_slot_map]>>
                                         ELSE <<>>])
               ELSE [g |-> g0, path |-> "idle",
                     result |-> <<sup.running, new_paused,
                                  IF sup.offset = RESTART THEN RESTART ELSE 0>>,
                     log |-> <<>>, reshuffle |-> <<>>]

Judge(events, t, sup, countdown_done, chaos_due, focus_due, shuffle, choice) ==
    \E out \in {Outcome(events, t, sup, countdown_done, chaos_due, focus_due, shuffle, choice)} :
        /\ game' = out.g
        /\ update' = [audio_time |-> t, events |-> events, path |-> out.path,
                      result |-> out.result, log |-> out.log, reshuffle |-> out.reshuffle]
        /\ hist' = IF out.path = "restart"
                   THEN [judgments |-> <<>>, dead_score |-> 0 - 1, nplays |-> hist.nplays]
                   ELSE [judgments |-> hist.judgments \o Judgments(out.log),
                         dead_score |-> DeadScore(hist.dead_score, out.log),
                         nplays |-> hist.nplays +
                                    (IF out.path = "play" /\ hist.nplays < MaxPlays THEN 1 ELSE 0)]
        /\ UNCHANGED <<tracks_data, modifiers, autoplay>>

\* an update of a game whose frames are not looked at
HandleInput(events, t, sup, countdown_done, chaos_due, focus_due, shuffle, choice) ==
    /\ Judge(events, t, sup, countdown_done, chaos_due, focus_due, shuffle, choice)
    /\ UNCHANGED <<bakeVars, viewVars, camVars, url, dash>>

\* the tracks of a game, as cli.py bakes them from the analysed onsets
BakedOnsets(raw) == Bake(raw, 1, 0, 0).onsets
GameTrackSets ==
    {[n \in {"drums"} |-> BakedOnsets(<<12, 16>>)],
     [n \in {"drums", "bass"} |-> IF n = "drums" THEN BakedOnsets(<<12, 16>>)
                                  ELSE BakedOnsets(<<0, 10>>)]}

\* the modifier lists tried; focus only where there are two tracks
ModifierSets ==
    IF Len(Names) = 1 THEN {{}, {"death"}, {"chaos"}}
    ELSE {{}, {"death"}, {"focus"}, {"chaos", "death"}}

\* audio times of the updates
GameTimes == {0, 3, 10, 12, 17, 21, 40}

\* the KEYDOWN events of one update: nothing, a key of a slot once or twice,
\* a key of each slot, K_r, K_ESCAPE
GameEvents ==
    {<<>>, <<"K_r">>, <<"K_ESCAPE">>, <<"K_r", "K_ESCAPE">>, <<"K_ESCAPE", "K_r">>}
    \cup (IF Len(Names) = 1
          THEN {<<"K_SPACE">>, <<"K_SPACE", "K_SPACE">>}
          ELSE {<<"K_d">>, <<"K_k">>, <<"K_d", "K_d">>, <<"K_d", "K_k">>})

\* SonirRenderer._handle_input(events, audio_time, paused, handle_pause=False):
\* running is False on a quit event, paused is the caller's flag unchanged,
\* offset_change is a seek of the caller
SuperHandleInput(events, paused) ==
    [running |-> ~HasQuit(events), paused |-> paused, offset |-> 0]

InitGame ==
    /\ url = <<>>
    /\ dash = NoDash
    /\ IdleBake
    /\ IdleView
    /\ IdleCam
    /\ tracks_data \in GameTrackSets
    /\ modifiers \in ModifierSets
    /\ autoplay \in (IF modifiers = {} /\ Len(Names) = 2 THEN BOOLEAN ELSE {FALSE})
    /\ game \in {NewGame(focus) :
                    focus \in IF "focus" \in modifiers THEN NameSet ELSE {"all"}}
    /\ update = NoUpdate
    /\ hist = NoHist

\* _handle_input with every choice of the environment made
Update(t, events, paused) ==
    \E countdown_done \in (IF game.in_countdown THEN BOOLEAN ELSE {TRUE}),
       chaos_due \in (IF "chaos" \in modifiers THEN BOOLEAN ELSE {FALSE}),
       focus_due \in (IF "focus" \in modifiers THEN BOOLEAN ELSE {FALSE}) :
       \E shuffle \in (IF chaos_due THEN Shuffles(game.track_slot_map)
                       ELSE {game.track_slot_map}),
          choice \in (IF focus_due THEN FocusOptions(game.focus_mode)
                      ELSE {game.focus_mode}) :
          HandleInput(events, t, SuperHandleInput(events, paused), countdown_done,
                      chaos_due, focus_due, shuffle, choice)

\* one turn of the game loop, as long as the last one returned running: the
\* audio clock advances while the game plays, stands still while it is
\* paused, in countdown or over, and starts again after a restart
NextGame ==
    /\ hist.nplays < MaxPlays
    /\ update.result[1]
    /\ \/ /\ update.result[3] = RESTART
          /\ \E events \in GameEvents : Update(0, events, TRUE)
       \/ /\ update.result[3] # RESTART
          /\ update.result[2]
          /\ \E events \in GameEvents : Update(update.audio_time, events, TRUE)
       \/ /\ update.result[3] # RESTART
          /\ ~update.result[2]
          /\ \E t \in GameTimes, events \in GameEvents :
                t > update.audio_time /\ Update(t, events, FALSE)

SpecGame == InitGame /\ [][NextGame]_vars

---------------------------------------------------------------------------
(* A session: the game loop calls _handle_input and then render_frame with  *)
(* the same audio time, turn after turn.  The viewport followed is the one  *)
(* of the first track.                                                      *)

MaxTurns == 5           \* turns of the game loop per behaviour

\* audio times of the turns: the start, inside the trigger window of the
\* first segment, past the last onset
SessionTimes == {0, 11, 40}

SessionTrack(raw) ==
    [timeline |-> Bake(raw, 1, 0, 0).timeline, onsets |-> Bake(raw, 1, 0, 0).onsets]

InitSession ==
    /\ url = <<>>
    /\ dash = NoDash
    /\ IdleBake
    /\ IdleCam
    /\ config = DefaultConfig
    /\ track = SessionTrack(<<12, 16>>)
    /\ tracks_data \in GameTrackSets
    /\ modifiers \in (IF Len(Names) = 1 THEN {{}, {"death"}} ELSE {{"chaos", "death"}})
    /\ autoplay = FALSE
    /\ game = NewGame("all")
    /\ update = NoUpdate
    /\ hist = NoHist
    /\ audio_time = 0
    /\ state = InitialRenderState
    /\ frame = NoFrame
    /\ nframes = 0

\* one turn: the update, then the frame
LoopTurn(t, events, paused) ==
    /\ \E countdown_done \in (IF game.in_countdown THEN BOOLEAN ELSE {TRUE}),
          chaos_due \in (IF "chaos" \in modifiers THEN BOOLEAN ELSE {FALSE}) :
          \E shuffle \in (IF chaos_due THEN Shuffles(game.track_slot_map)
                          ELSE {game.track_slot_map}) :
             Judge(events, t, SuperHandleInput(events, paused), countdown_done,
                   chaos_due, FALSE, shuffle, game.focus_mode)
    /\ DrawTrack(t, 16, 0)
    /\ UNCHANGED <<bakeVars, config, camVars, url, dash>>

NextSession ==
    /\ nframes < MaxTurns
    /\ update.result[1]
    /\ \/ /\ update.result[3] = RESTART
          /\ \E events \in GameEvents : LoopTurn(0, events, TRUE)
       \/ /\ update.result[3] # RESTART
          /\ update.result[2]
          /\ \E events \in GameEvents : LoopTurn(update.audio_time, events, TRUE)
       \/ /\ update.result[3] # RESTART
          /\ ~update.result[2]
          /\ \E t \in SessionTimes, events \in GameEvents :
                t > update.audio_time /\ LoopTurn(t, events, FALSE)

SpecSession == InitSession /\ [][NextSession]_vars

---------------------------------------------------------------------------
(* Properties of the judgments of the RhythmGame *)

LogSteps == Range(update.log)
Onsets(n) == Range(tracks_data[n])

\* C15 as claimed: after any update with audio time T, every onset of every
\* track whose value is less than T - BAD is in the track's processed_onsets.
C15_SweepAfterEveryUpdate ==
    update.path # "none" =>
        \A n \in NameSet : \A o \in Onsets(n) :
            o < update.audio_time - BAD => o \in game.processed_onsets[n]

\* C15 amended: after an update with audio time T that ran the play block
\* (countdown finished, not paused, running, not game over and health > 0 on
\* entry), every onset of every track whose value is less than T - BAD is in
\* the track's processed_onsets and the track's cursor is past it.
C15_SweepAfterPlayedUpdate ==
    update.path = "play" =>
        \A n \in NameSet : \A i \in 1..Len(tracks_data[n]) :
            tracks_data[n][i] < update.audio_time - BAD =>
                /\ tracks_data[n][i] \in game.processed_onsets[n]
                /\ game.track_indices[n] >= i

\* an update that swept two onsets of a track, one of them as a miss
C15_Witness ==
    /\ update.path = "play"
    /\ \E e \in LogSteps : e.kind = "miss" /\ e.after.cursor >= 2

\* C16 as claimed: each onset the sweep passes unresolved gets one miss
\* penalty (health minus 10, floored at 0; combo 0), is added to the resolved
\* set, and the cursor advances by one; an onset already resolved is passed
\* with no penalty and the cursor advances by one.
C16_MissPenaltyTen ==
    \A e \in LogSteps : e.via = "sweep" =>
        /\ e.after.cursor = e.before.cursor + 1
        /\ e.after.score = e.before.score
        /\ e.after.max_combo = e.before.max_combo
        /\ e.onset \notin e.before.resolved =>
              /\ e.kind = "miss"
              /\ e.after.health = Floor0(e.before.health - MISS_LOSS)
              /\ e.after.combo = 0
              /\ e.after.resolved = e.before.resolved \cup {e.onset}
        /\ e.onset \in e.before.resolved =>
              /\ e.kind = "skip"
              /\ e.after.health = e.before.health
              /\ e.after.combo = e.before.combo
              /\ e.after.resolved = e.before.resolved

\* C16 amended: the same, with the miss penalty being 10, or 100 when the
\* "death" modifier is on.
C16_MissPenaltyByModifier ==
    \A e \in LogSteps : e.via = "sweep" =>
        /\ e.after.cursor = e.before.cursor + 1
        /\ e.after.score = e.before.score
        /\ e.after.max_combo = e.before.max_combo
        /\ e.onset \notin e.before.resolved =>
              /\ e.kind = "miss"
              /\ e.after.health =
                    Floor0(e.before.health - (IF "death" \in modifiers THEN DEATH_LOSS ELSE MISS_LOSS))
              /\ e.after.combo = 0
              /\ e.after.resolved = e.before.resolved \cup {e.onset}
        /\ e.onset \in e.before.resolved =>
              /\ e.kind = "skip"
              /\ e.after.health = e.before.health
              /\ e.after.combo = e.before.combo
              /\ e.after.resolved = e.before.resolved

\* a sweep that passed an onset resolved by a hit, and missed another one
\* while a combo was running
C16_Witness ==
    /\ \E e \in LogSteps : e.kind = "skip"
    /\ \E e \in LogSteps : e.kind = "miss" /\ e.before.combo > 0 /\ e.after.health > 0

\* C17: since the last reset no onset of a track has been judged twice,
\* whether as two hits, two misses, or a hit and a miss.
C17_JudgedAtMostOnce ==
    \A i, j \in 1..Len(hist.judgments) :
        (i < j /\ hist.judgments[i].track = hist.judgments[j].track) =>
            hist.judgments[i].onset # hist.judgments[j].onset

\* a hit and a miss on one track, and an input that found its onset resolved
C17_Witness ==
    /\ \E i, j \in 1..Len(hist.judgments) :
          /\ hist.judgments[i].track = hist.judgments[j].track
          /\ hist.judgments[i].kind = "hit"
          /\ hist.judgments[j].kind = "miss"
    /\ \E e \in LogSteps : e.kind = "extra" /\ e.onset = NoOnset

\* the effect of a hit input whose closest unresolved candidate is at distance d
HitEffect(e, extra_loss) ==
    /\ e.d < PERFECT =>
          /\ e.after.score = e.before.score + 300
          /\ e.after.health = CapMax(e.before.health + 600)
    /\ (PERFECT <= e.d /\ e.d < GOOD) =>
          /\ e.after.score = e.before.score + 100
          /\ e.after.health = CapMax(e.before.health + 300)
    /\ (GOOD <= e.d /\ e.d < BAD) =>
          /\ e.after.score = e.before.score + 50
          /\ e.after.health = CapMax(e.before.health + 50)
    /\ e.d < BAD =>
          /\ e.kind = "hit"
          /\ e.after.resolved = e.before.resolved \cup {e.onset}
          /\ e.after.combo = e.before.combo + 1
          /\ e.after.max_combo = (IF e.before.max_combo < e.after.combo
                                  THEN e.after.combo ELSE e.before.max_combo)
          /\ e.after.health <= MAX_HEALTH
    /\ e.d >= BAD =>
          /\ e.kind = "extra"
          /\ e.after.health = Floor0(e.before.health - extra_loss)
          /\ e.after.combo = 0
          /\ e.after.score = e.before.score
          /\ e.after.resolved = e.before.resolved

\* C18 as claimed: d < PERFECT scores 300 and heals 6, PERFECT <= d < GOOD
\* scores 100 and heals 3, GOOD <= d < BAD scores 50 and heals 0.5, each
\* resolving the onset, adding 1 to combo, raising max-combo and capping
\* health; d >= BAD costs 4 health (floored at 0), resets combo, scores
\* nothing and resolves nothing.
C18_TiersAndPenaltyFour ==
    \A e \in LogSteps : (e.via = "key" /\ e.onset # NoOnset) => HitEffect(e, EXTRA_LOSS)

\* C18 amended: the same, with the extra-input penalty being 4, or 100 when
\* the "death" modifier is on.
C18_TiersAndPenaltyByModifier ==
    \A e \in LogSteps : (e.via = "key" /\ e.onset # NoOnset) =>
        HitEffect(e, IF "death" \in modifiers THEN DEATH_LOSS ELSE EXTRA_LOSS)

\* an input at distance exactly PERFECT, and one at distance exactly BAD
C18_Witness ==
    /\ \E e \in LogSteps : e.via = "key" /\ e.kind = "extra" /\ e.d = BAD /\ e.before.combo > 0
    /\ \E k \in 1..Len(hist.judgments) : hist.judgments[k].kind = "hit"

\* an input on a track at the time of the latest update, when the only onset
\* of the track within BAD is one that an earlier input resolved as a hit
SecondInput(e) ==
    /\ e.via = "key"
    /\ \E o \in e.before.resolved :
          /\ Abs(o - update.audio_time) < BAD
          /\ \E k \in 1..Len(hist.judgments) :
                hist.judgments[k] = [track |-> e.track, onset |-> o, kind |-> "hit"]
          /\ \A o2 \in Onsets(e.track) \ {o} : Abs(o2 - update.audio_time) >= BAD

\* C19: such a second input adds no score, resolves no onset, resets combo
\* to 0 and takes the extra-input loss from health (down to 0 at most).
C19_SecondInputPenalised ==
    \A e \in LogSteps : SecondInput(e) =>
        /\ e.kind = "extra"
        /\ e.after.score = e.before.score
        /\ e.after.resolved = e.before.resolved
        /\ e.after.combo = 0
        /\ e.after.health = Floor0(e.before.health - Loss(EXTRA_LOSS))
        /\ e.before.health > 0 => e.after.health < e.before.health

\* a second input right after the hit, which broke the combo of the hit
C19_Witness ==
    \E e \in LogSteps : SecondInput(e) /\ e.before.combo > 0 /\ e.before.health > EXTRA_LOSS

\* C20: once health has been 0 during play, it stays 0 and the score stays
\* what it was at that moment, until a reset.
C20_DeadStaysDead ==
    hist.dead_score # 0 - 1 => (game.health = 0 /\ game.score = hist.dead_score)

---------------------------------------------------------------------------
(* Game over, reset, modifiers *)

\* C21: while the game is over, an update with neither K_r nor a quit event
\* changes no score, combo, max-combo, health, resolved set, cursor or slot
\* and leaves the game over and running; the game leaves game-over only on
\* an update with K_r, and stops running only on an update with a quit event.
C21_GameOverHolds ==
    [][game.game_over =>
          /\ ("K_r" \notin Range(update'.events) /\ ~HasQuit(update'.events)) =>
                /\ game'.score = game.score
                /\ game'.combo = game.combo
                /\ game'.max_combo = game.max_combo
                /\ game'.health = game.health
                /\ game'.processed_onsets = game.processed_onsets
                /\ game'.track_indices = game.track_indices
                /\ game'.track_slot_map = game.track_slot_map
                /\ game'.game_over
                /\ update'.result[1]
          /\ ~game'.game_over => "K_r" \in Range(update'.events)
          /\ ~update'.result[1] => HasQuit(update'.events)]_vars

\* a key of a slot pressed while the game is over, after a hit and a miss
C21_Witness ==
    /\ game.game_over
    /\ update.path = "over"
    /\ \E i \in 1..Len(update.events) : KeyMap(game.track_slot_map, update.events[i]) # <<>>
    /\ game.score > 0

\* C22: right after a reset from game-over, score, combo and max-combo are
\* 0, health is the maximum, the game is not over, and every track has
\* cursor 0 and no resolved onset, as right after construction.
C22_ResetReinitializes ==
    update.path = "restart" =>
        /\ game.score = 0
        /\ game.combo = 0
        /\ game.max_combo = 0
        /\ game.health = MAX_HEALTH
        /\ ~game.game_over
        /\ \A n \in NameSet : game.track_indices[n] = 0 /\ game.processed_onsets[n] = {}

\* C23: right after a reset the hit-trigger guard of the viewport is back at
\* its initial value, last_hit_idx = -1.
C23_ResetClearsGuard ==
    update.path = "restart" => state.last_hit_idx = 0 - 1

\* C24: a reshuffle of a game with more than one slot leaves a track-to-slot
\* assignment that differs from the one held just before it, whatever the
\* shuffle drew; with one slot the assignment stays the same.
C24_ReshuffleChanges ==
    \A s \in Range(update.reshuffle) :
        /\ Len(Names) > 1 => s.after # s.before
        /\ Len(Names) = 1 => s.after = s.before
        /\ game.track_slot_map = s.after

\* a reshuffle of two slots followed, in the same update, by a hit through
\* a key of the new assignment
C24_Witness ==
    /\ Len(Names) > 1
    /\ update.reshuffle # <<>>
    /\ \E e \in LogSteps : e.via = "key" /\ e.kind = "hit"

\* C25: with the focus modifier on and a track focused, the inputs of an
\* update are judged on the focused track only: every judgment of an input
\* is on that track, and there are no more of them than events whose key
\* maps to it, so an event whose key maps to another track changes no
\* score, combo, max-combo, health or resolved set.
C25_UnfocusedInputIgnored ==
    ("focus" \in modifiers /\ game.focus_mode # "all") =>
        /\ \A e \in LogSteps : e.via = "key" => e.track = game.focus_mode
        /\ Len(SelectSeq(update.log, LAMBDA e : e.via = "key"))
              <= Len(SelectSeq(update.events,
                               LAMBDA k : KeyMap(game.track_slot_map, k) = <<game.focus_mode>>))

\* an update with a key of each slot, where the track out of focus has an
\* unresolved onset within BAD of the audio time
C25_Witness ==
    /\ "focus" \in modifiers
    /\ update.path = "play"
    /\ \E e \in LogSteps : e.via = "key" /\ e.kind = "hit"
    /\ \E i \in 1..Len(update.events) : \E n \in NameSet \ {game.focus_mode} :
          /\ KeyMap(game.track_slot_map, update.events[i]) = <<n>>
          /\ \E o \in Onsets(n) \ game.processed_onsets[n] : Abs(o - update.audio_time) < BAD

\* C26: with the death modifier on, every miss and every extra input leaves
\* health at exactly 0, whatever it was before.
C26_DeathPenaltyIsZero ==
    "death" \in modifiers =>
        \A e \in LogSteps : e.kind \in {"miss", "extra"} => e.after.health = 0

\* a miss at almost full health, then a hit that heals, then an extra input
C26_Witness ==
    /\ "death" \in modifiers
    /\ \E e \in LogSteps : e.kind = "miss" /\ e.before.health > MAX_HEALTH - MISS_LOSS
    /\ \E e \in LogSteps : e.kind = "extra" /\ e.before.health > 0

\* C27: in the steps of one update every step of the miss sweep comes before
\* every judgment of an input event; when an input is judged, every onset of
\* its track more than BAD behind the audio time is resolved already; and no
\* onset is both hit and missed in the update.
C27_SweepBeforeInput ==
    /\ \A i, j \in 1..Len(update.log) :
          (update.log[i].via = "sweep" /\ update.log[j].via = "key") => i < j
    /\ \A e \in LogSteps : e.via = "key" =>
          \A o \in Onsets(e.track) : o + BAD < update.audio_time => o \in e.before.resolved
    /\ \A e, f \in LogSteps :
          (e.kind = "hit" /\ f.kind = "miss" /\ e.track = f.track) => e.onset # f.onset

\* an update that missed one onset of a track and then judged an input on
\* the next onset of that track as a hit
C27_Witness ==
    \E e, f \in LogSteps :
        /\ e.kind = "miss" /\ f.kind = "hit" /\ f.via = "key"
        /\ e.track = f.track
        /\ f.d > 0

\* C28: after every update, and so wherever an input of the update was
\* mapped to its tracks, the track-to-slot map is a bijection between the
\* tracks and the slots and the key map is the one derived from it; every
\* judgment of an input is on a track that the map gives for a key of the
\* update.
C28_InputsMappedThroughWholeMap ==
    update.path # "none" =>
        /\ \A n \in NameSet : game.track_slot_map[n] \in 0..(Len(Names) - 1)
        /\ \A a, b \in NameSet : a # b => game.track_slot_map[a] # game.track_slot_map[b]
        /\ \A k \in DOMAIN game.key_map : game.key_map[k] = KeyMap(game.track_slot_map, k)
        /\ \A n \in NameSet : \A k \in SlotKeys(game.track_slot_map[n], Len(Names)) :
              k \in DOMAIN game.key_map
        /\ \A e \in LogSteps : e.via = "key" =>
              \E i \in 1..Len(update.events) :
                 KeyMap(game.track_slot_map, update.events[i]) = <<e.track>>

\* a reshuffle followed, in the same update, by a hit through a key that
\* belonged to the other track before
C28_Witness ==
    /\ update.reshuffle # <<>>
    /\ \E e \in LogSteps :
          /\ e.via = "key" /\ e.kind = "hit"
          /\ \A i \in 1..Len(update.events) :
                KeyMap(update.reshuffle[1].before, update.events[i]) # <<e.track>>

\* C29: no turn of a session (update and frame: judgments, reshuffles,
\* resets, hit effects, particle moves) changes a segment or an onset of the
\* track of the viewport or an onset array of the game.
C29_TimelineNeverWritten ==
    [][track' = track /\ tracks_data' = tracks_data]_vars

\* a reset after a reshuffle, a hit judgment and a hit effect whose particles
\* have moved away from the hit point
C29_Witness ==
    /\ update.path = "restart"
    /\ game.max_combo > 0
    /\ game.track_slot_map # NewGame("all").track_slot_map
    /\ state.last_hit_idx = 0
    /\ \E k \in 1..Len(state.particles) : state.particles[k].pos # track.timeline[1].p1

---------------------------------------------------------------------------
(* AudioDownloader.is_url (sonir/downloader.py).  A string is the sequence  *)
(* of its characters; a position is the index of the next character read.  *)

\* re.IGNORECASE, for the capitals that occur in the strings tried
Lower(c) ==
    CASE c = "H" -> "h" [] c = "T" -> "t" [] c = "P" -> "p" [] c = "C" -> "c" [] c = "M" -> "m"
      [] OTHER -> c

\* the character classes of the pattern: [A-Z], \d, whitespace (for \S)
Class(c) ==
    IF Lower(c) \in {"a", "b", "c", "d", "e", "f", "g", "h", "i", "j", "k", "l", "m", "n", "o",
                     "p", "q", "r", "s", "t", "u", "v", "w", "x", "y", "z"} THEN "alpha"
    ELSE IF c \in {"0", "1", "2", "3", "4", "5", "6", "7", "8", "9"} THEN "digit"
    ELSE IF c \in {" ", "\n", "\t"} THEN "space"
    ELSE "other"

\* the positions after the literal w read from position i: one or none
Literal(s, i, w) ==
    IF /\ i + Len(w) - 1 <= Len(s)
       /\ \A k \in 1..Len(w) : Lower(s[i + k - 1]) = w[k]
    THEN {i + Len(w)}
    ELSE {}

\* ^(?:http|ftp)s?://
SchemeOptional(s) ==
    {1} \cup UNION {Literal(s, i, <<":", "/", "/">>) : i \in 1..Len(s)}
Scheme(s) ==
    LET a == Literal(s, 1, <<"h", "t", "t", "p">>) \cup Literal(s, 1, <<"f", "t", "p">>)
        b == a \cup UNION {Literal(s, i, <<"s">>) : i \in a}
    IN  UNION {Literal(s, i, <<":", "/", "/">>) : i \in b}

\* the host group, read from position i: dotted labels and a top-level
\* label, or localhost, or four groups of one to three digits
Host(s, i) ==
    LET n == Len(s)
        Alnum(k) == Class(s[k]) \in {"alpha", "digit"}
        Word(k) == Alnum(k) \/ s[k] = "-"
        \* (?:[A-Z0-9](?:[A-Z0-9-]{0,61}[A-Z0-9])?\.)+ : the labels hold no
        \* dot, so the dots of s[i..j-1] are the ends of the labels
        Labels == {j \in (i + 2)..(n + 1) :
                     /\ s[j - 1] = "."
                     /\ \A k \in i..(j - 1) :
                           IF s[k] = "." THEN k > i /\ Alnum(k - 1)
                           ELSE Word(k) /\ ((k = i \/ s[k - 1] = ".") => Alnum(k))
                     /\ \A k \in i..(j - 64) : \E m \in k..(k + 63) : s[m] = "."}
        \* (?:[A-Z]{2,6}\.?|[A-Z0-9-]{2,}\.?)
        Tld(j) == {e \in (j + 2)..(n + 1) :
                     \/ e - j <= 6 /\ \A k \in j..(e - 1) : Class(s[k]) = "alpha"
                     \/ \A k \in j..(e - 1) : Word(k)}
        Dot(P) == {j + 1 : j \in {q \in P : q <= n /\ s[q] = "."}}
        \* \d{1,3}
        Num(P) == {e \in 2..(n + 1) :
                     \E j \in P : e - j \in 1..3 /\ \A k \in j..(e - 1) : Class(s[k]) = "digit"}
        domain == UNION {Tld(j) \cup Dot(Tld(j)) : j \in Labels}
        localhost == Literal(s, i, <<"l", "o", "c", "a", "l", "h", "o", "s", "t">>)
        ip == Num(Dot(Num(Dot(Num(Dot(Num({i})))))))
    IN  domain \cup localhost \cup ip

\* (?::\d+)?
Port(s, i) ==
    {i} \cup {e \in (i + 2)..(Len(s) + 1) :
                /\ s[i] = ":"
                /\ \A k \in (i + 1)..(e - 1) : Class(s[k]) = "digit"}

\* (?:/?|[/?]\S+)$, where $ is the end or the place before a last newline
PathOk(s, i) ==
    LET n == Len(s)
        AtEnd(p) == p = n + 1 \/ (p = n /\ s[n] = "\n")
    IN  \/ AtEnd(i)
        \/ i <= n /\ s[i] = "/" /\ AtEnd(i + 1)
        \/ /\ i <= n
           /\ s[i] \in {"/", "?"}
           /\ \E e \in (i + 2)..(n + 1) :
                 AtEnd(e) /\ \A k \in (i + 1)..(e - 1) : Class(s[k]) # "space"

\* re.match(regex, string) is not None
IsUrl(s) ==
    \E a \in Scheme(s) : \E b \in Host(s, a) : \E c \in Port(s, b) : PathOk(s, c)

\* the characters of the parts the strings tried are made of
Chars(part) ==
    CASE part = "http://" -> <<"h", "t", "t", "p", ":", "/", "/">> []
         part = "https://" -> <<"h", "t", "t", "p", "s", ":", "/", "/">> []
         part = "ftp://" -> <<"f", "t", "p", ":", "/", "/">> []
         part = "HTTP://" -> <<"H", "T", "T", "P", ":", "/", "/">> []
         part = "ftps://" -> <<"f", "t", "p", "s", ":", "/", "/">> []
         part = "file://" -> <<"f", "i", "l", "e", ":", "/", "/">> []
         part = "htp://" -> <<"h", "t", "p", ":", "/", "/">> []
         part = "http:/" -> <<"h", "t", "t", "p", ":", "/">> []
         part = "" -> <<>> []
         part = "C:\\" -> <<"C", ":", "\\">> []
         part = "/" -> <<"/">> []
         part = "youtu.be" -> <<"y", "o", "u", "t", "u", ".", "b", "e">> []
         part = "www.a-b.com" -> <<"w", "w", "w", ".", "a", "-", "b", ".", "c", "o", "m">> []
         part = "localhost" -> <<"l", "o", "c", "a", "l", "h", "o", "s", "t">> []
         part = "127.0.0.1" -> <<"1", "2", "7", ".", "0", ".", "0", ".", "1">> []
         part = "song.mp3" -> <<"s", "o", "n", "g", ".", "m", "p", "3">> []
         part = "home" -> <<"h", "o", "m", "e">> []
         part = "a.b" -> <<"a", ".", "b">> []
         part = "-a.com" -> <<"-", "a", ".", "c", "o", "m">> []
         part = "1.2.3" -> <<"1", ".", "2", ".", "3">> []
         part = ":8080" -> <<":", "8", "0", "8", "0">> []
         part = ":" -> <<":">> []
         part = ":80a" -> <<":", "8", "0", "a">> []
         part = "/watch?v=a1" -> <<"/", "w", "a", "t", "c", "h", "?", "v", "=", "a", "1">> []
         part = "?v=1" -> <<"?", "v", "=", "1">> []
         part = "/a b" -> <<"/", "a", " ", "b">> []
         part = "#top" -> <<"#", "t", "o", "p">> []
         part = "\\Music\\song.mp3" -> <<"\\", "M", "u", "s", "i", "c", "\\", "s", "o", "n", "g", ".", "m", "p", "3">> []
         part = "/music/song.wav" -> <<"/", "m", "u", "s", "i", "c", "/", "s", "o", "n", "g", ".", "w", "a", "v">> []
         part = "\n" -> <<"\n">>

\* the strings tried: a scheme or the start of a local path, a host or file
\* name, a port, a path
InitUrl ==
    /\ IdleBake
    /\ IdleView
    /\ IdleCam
    /\ IdleGame
    /\ \E scheme \in {"http://", "https://", "ftp://", "HTTP://", "ftps://", "file://",
         "htp://", "http:/", "", "C:\\", "/"},
          host \in {"youtu.be", "www.a-b.com", "localhost", "127.0.0.1", "song.mp3",
         "home", "a.b", "-a.com", "1.2.3", ""},
          port \in {"", ":8080", ":", ":80a"},
          path \in {"", "/", "/watch?v=a1", "?v=1", "/a b", "#top", "\\Music\\song.mp3",
         "/music/song.wav", "\n"} :
          url = [scheme |-> scheme, host |-> host, port |-> port, path |-> path,
                 string |-> Chars(scheme) \o Chars(host) \o Chars(port) \o Chars(path),
                 called |-> FALSE, result |-> FALSE]

\* AudioDownloader.is_url(string)
CallIsUrl ==
    /\ ~url.called
    /\ url' = [url EXCEPT !.called = TRUE, !.result = IsUrl(url.string)]
    /\ UNCHANGED <<bakeVars, viewVars, camVars, gameVars>>

SpecUrl == InitUrl /\ [][CallIsUrl]_vars

\* C30: is_url returns TRUE for a string made of an http, https or ftp
\* scheme, a dotted domain name, localhost or an IPv4 address, an optional
\* port and an optional path or query without whitespace; it returns FALSE
\* for a Windows path, a POSIX absolute path and a bare file name.
C30_UrlsAndLocalFiles ==
    url.called =>
        /\ (/\ url.scheme \in {"http://", "https://", "ftp://"}
            /\ url.host \in {"youtu.be", "www.a-b.com", "localhost", "127.0.0.1"}
            /\ url.port \in {"", ":8080"}
            /\ url.path \in {"", "/", "/watch?v=a1", "?v=1", "/music/song.wav"}) => url.result
        /\ (/\ url.scheme = "C:\\"
            /\ url.host \in {"song.mp3", "home"}
            /\ url.port = ""
            /\ url.path \in {"", "\\Music\\song.mp3"}) => ~url.result
        /\ (/\ url.scheme = "/"
            /\ url.host \in {"song.mp3", "home"}
            /\ url.port = ""
            /\ url.path \in {"", "/music/song.wav"}) => ~url.result
        /\ (/\ url.scheme = ""
            /\ url.host \in {"song.mp3", "home"}
            /\ url.port = ""
            /\ url.path = "") => ~url.result

\* the call made on an https URL with a three-label domain, a port and a query
C30_Witness ==
    /\ url.called
    /\ url.result
    /\ url.scheme = "https://"
    /\ url.host = "www.a-b.com"
    /\ url.port = ":8080"
    /\ url.path = "/watch?v=a1"

---------------------------------------------------------------------------
(* Invariants of the game state *)

\* C31: a hit resolves the onset that is, among the first onset at or after
\* the input time and the last onset before it, unresolved and closest to the
\* input time; no other onset of the track changes its resolved status, and
\* the resolved set and the cursor of every other track stay as they were.
C31_ClosestUnresolvedCandidate ==
    \A e \in LogSteps : e.kind = "hit" =>
        LET t == update.audio_time
            later == {o \in Onsets(e.track) : o >= t}
            earlier == {o \in Onsets(e.track) : o < t}
            two == (IF later = {} THEN {} ELSE {Min(later)})
                   \cup (IF earlier = {} THEN {} ELSE {CHOOSE o \in earlier : \A p \in earlier : p <= o})
            open == two \ e.before.resolved
        IN  /\ e.onset \in open
            /\ \A c \in open : Abs(e.onset - t) <= Abs(c - t)
            /\ e.after.resolved = e.before.resolved \cup {e.onset}
            /\ \A n \in NameSet \ {e.track} :
                  /\ e.after.processed[n] = e.before.processed[n]
                  /\ e.after.indices[n] = e.before.indices[n]

\* a hit between two unresolved onsets of a track that took the earlier one,
\* in a game with a second track that has a resolved onset
C31_Witness ==
    \E e \in LogSteps :
        /\ e.kind = "hit"
        /\ e.onset < update.audio_time
        /\ \E o \in Onsets(e.track) \ e.before.resolved : o > update.audio_time
        /\ \E n \in NameSet \ {e.track} : e.before.processed[n] # {}

\* C32: health is within [0, MAX_HEALTH] after every update and after every
\* step inside an update: drain, hit, miss, extra input, death penalty, reset.
C32_HealthBounded ==
    /\ 0 <= game.health /\ game.health <= MAX_HEALTH
    /\ \A e \in LogSteps : 0 <= e.after.health /\ e.after.health <= MAX_HEALTH

\* an update in which a hit healed up to the cap and a penalty then took
\* all of it
C32_Witness ==
    /\ \E e \in LogSteps :
          /\ e.kind = "hit"
          /\ e.before.health + PERFECT_HEAL > MAX_HEALTH
          /\ e.after.health = MAX_HEALTH
    /\ \E e \in LogSteps :
          /\ e.kind \in {"miss", "extra"}
          /\ e.before.health = MAX_HEALTH
          /\ e.after.health = 0

\* C33: an update that is not a reset never moves the cursor of a track
\* back; after every update the cursor of each track is between 0 and the
\* number of its onsets, and every onset at an index below the cursor is in
\* the resolved set of the track.
C33_CursorMonotonic ==
    [][/\ update'.path # "restart" =>
             \A n \in NameSet : game'.track_indices[n] >= game.track_indices[n]
       /\ \A n \in NameSet :
             /\ 0 <= game'.track_indices[n]
             /\ game'.track_indices[n] <= Len(tracks_data[n])
             /\ \A i \in 1..game'.track_indices[n] :
                   tracks_data[n][i] \in game'.processed_onsets[n]]_vars

\* a cursor that has reached the end of its track, past an onset a hit had
\* resolved and past one it marked as missed
C33_Witness ==
    /\ update.path = "play"
    /\ \E n \in NameSet : game.track_indices[n] = Len(tracks_data[n])
    /\ \E e \in LogSteps : e.kind = "skip"
    /\ \E e \in LogSteps : e.kind = "miss"

\* C36: after every update and after every step inside it, combo is between
\* 0 and max-combo; an update that is not a reset never lowers the score, and
\* a reset leaves it at 0.
C36_ComboAndScore ==
    [][/\ 0 <= game'.combo /\ game'.combo <= game'.max_combo
       /\ \A e \in Range(update'.log) :
             /\ 0 <= e.after.combo /\ e.after.combo <= e.after.max_combo
             /\ e.after.score >= e.before.score
       /\ update'.path # "restart" => game'.score >= game.score
       /\ update'.path = "restart" => game'.score = 0]_vars

\* an update in which a hit raised max-combo and a later step broke the combo
C36_Witness ==
    /\ \E e \in LogSteps : e.kind = "hit" /\ e.after.max_combo > e.before.max_combo
    /\ game.combo = 0
    /\ game.max_combo > 0
    /\ game.score > 0

\* C38: under the focus modifier the miss sweep runs on every track: after an
\* update that plays, every onset more than BAD behind the audio time is
\* resolved and behind the cursor of its track, whether the track is in focus
\* or not; one that was open when the update began was judged a miss of that
\* update at the full miss penalty with the combo cleared; and every judgment
\* of a key is on the focused track.
C38_FocusSweepsEveryTrack ==
    ("focus" \in modifiers /\ update.path = "play") =>
        /\ \A n \in NameSet : \A i \in 1..Len(tracks_data[n]) :
               update.audio_time > tracks_data[n][i] + BAD =>
                   /\ tracks_data[n][i] \in game.processed_onsets[n]
                   /\ game.track_indices[n] >= i
                   /\ tracks_data[n][i] \notin update.log[1].before.processed[n] =>
                         \E e \in LogSteps :
                             /\ e.kind = "miss"
                             /\ e.track = n
                             /\ e.onset = tracks_data[n][i]
                             /\ e.after.combo = 0
                             /\ \E loss \in {IF "death" \in modifiers THEN DEATH_LOSS
                                               ELSE MISS_LOSS} :
                                   e.after.health = (IF e.before.health > loss
                                                     THEN e.before.health - loss ELSE 0)
        /\ \A e \in LogSteps : e.via = "key" => e.track = game.focus_mode

\* an update that missed an onset of the track out of focus, lost health for
\* it, and got a key of that track that judged nothing
C38_Witness ==
    /\ "focus" \in modifiers
    /\ update.path = "play"
    /\ \E e \in LogSteps :
          /\ e.kind = "miss"
          /\ e.track # game.focus_mode
          /\ e.after.health = e.before.health - MISS_LOSS
          /\ \E i \in 1..Len(update.events) :
                /\ update.events[i] \in DOMAIN game.key_map
                /\ game.key_map[update.events[i]] = <<e.track>>
          /\ \A f \in LogSteps : f.via = "key" => f.track # e.track

\* C39: every judgment autoplay issues is a hit, with autoplay on, taken when
\* the first onset of the track at or after the audio time was open and less
\* than PERFECT away; it is of the best tier, on an onset that was open, and
\* so never the penalty of an extra input.
C39_AutoplayBestTier ==
    \A e \in LogSteps : e.via = "autoplay" =>
        /\ autoplay
        /\ e.kind = "hit"
        /\ \E i \in 1..Len(tracks_data[e.track]) :
              /\ tracks_data[e.track][i] >= update.audio_time
              /\ \A j \in 1..(i - 1) : tracks_data[e.track][j] < update.audio_time
              /\ tracks_data[e.track][i] \notin e.before.resolved
              /\ tracks_data[e.track][i] - update.audio_time < PERFECT
        /\ e.onset \notin e.before.resolved
        /\ e.after.resolved = e.before.resolved \cup {e.onset}
        /\ e.d < PERFECT
        /\ e.after.score = e.before.score + PERFECT_SCORE
        /\ e.after.combo = e.before.combo + 1
        /\ e.after.health = (IF e.before.health + PERFECT_HEAL < MAX_HEALTH
                             THEN e.before.health + PERFECT_HEAL ELSE MAX_HEALTH)

\* an update in which autoplay hit an onset, in a game in which it had hit
\* one before
C39_Witness ==
    /\ autoplay
    /\ \E e \in LogSteps :
          /\ e.via = "autoplay"
          /\ e.kind = "hit"
          /\ e.before.score >= PERFECT_SCORE
          /\ e.after.score = e.before.score + PERFECT_SCORE

---------------------------------------------------------------------------
(* A game that is left to run: updates keep coming, never paused; the       *)
(* player presses nothing, a key that is no key of the game, or the key of  *)
(* the track.                                                               *)

\* audio times of the updates: before the onsets, on the first onset, past
\* the last one (the last time stands for every later one)
DrainTimes == {0, 12, 40}
DrainEvents == {<<>>, <<"K_a">>, <<"K_SPACE">>}

InitDrain ==
    /\ url = <<>>
    /\ dash = NoDash
    /\ IdleBake
    /\ IdleView
    /\ IdleCam
    /\ tracks_data = [n \in {"drums"} |-> BakedOnsets(<<12, 16>>)]
    /\ modifiers \in {{}, {"death"}}
    /\ autoplay = FALSE
    /\ game = NewGame("all")
    /\ update = NoUpdate
    /\ hist = NoHist

\* an unpaused update; countdown_done says whether the three seconds of the
\* countdown have passed; the audio clock stands still until they have, and
\* moves on from one update to the next after that
DrainUpdate(countdown_done) ==
    \E t \in DrainTimes, events \in DrainEvents :
        /\ t >= update.audio_time
        /\ game.in_countdown => t = update.audio_time
        /\ (~game.in_countdown /\ \E later \in DrainTimes : later > update.audio_time) =>
              t > update.audio_time
        /\ HandleInput(events, t, SuperHandleInput(events, FALSE), countdown_done,
                       FALSE, FALSE, game.track_slot_map, game.focus_mode)

NextDrain ==
    \/ DrainUpdate(TRUE)
    \/ /\ game.in_countdown
       /\ DrainUpdate(FALSE)

\* updates keep being called, and the wall clock gets past the countdown
SpecDrain == InitDrain /\ [][NextDrain]_vars /\ WF_vars(DrainUpdate(TRUE))

\* the latest update had an input that scored a hit
KeyHit == \E e \in LogSteps : e.kind = "hit" /\ e.via = "key"

\* C37: when updates keep being called unpaused and no input ever scores a
\* hit, the game eventually is over.
C37_DrainEndsGame == <>(KeyHit \/ game.game_over)

\* a game that ended without a hit and without the death modifier, on an
\* update with no input and no onset left
C37_Witness ==
    /\ game.game_over
    /\ game.max_combo = 0
    /\ "death" \notin modifiers
    /\ update.events = <<>>
    /\ update.audio_time = 40

---------------------------------------------------------------------------
(* Invariants of the render state *)

MaxTrailFrames == 20    \* frames drawn per behaviour, enough to fill the trail and go on

\* a long run of frames half a second apart: the first two at any time (the
\* player seeks), the later ones one tick after the other, back at the start
\* after the end
InitTrail ==
    /\ url = <<>>
    /\ IdleBake
    /\ IdleCam
    /\ IdleGame
    /\ config \in Configs
    /\ track \in BakedTracks
    /\ audio_time = 0
    /\ state = InitialRenderState
    /\ frame = NoFrame
    /\ nframes = 0

NextTrail ==
    /\ nframes < MaxTrailFrames
    /\ \/ /\ nframes < 2
          /\ \E t \in QueryTimes : DrawViewport(t, 500, 0)
       \/ /\ nframes >= 2
          /\ DrawViewport(IF audio_time > MaxTime THEN MinTime - 1 ELSE audio_time + 1, 500, 0)

SpecTrail == InitTrail /\ [][NextTrail]_vars

\* the simulated position of the latest frame, from its segment and progress
FramePos ==
    LET seg == Seg(track.timeline, frame.idx)
    IN  VAdd(seg.p0, VMulFrac(VSub(seg.p1, seg.p0), frame.progress, Scale))

\* C34: after every frame the shake of the track is within [0, 1]; with
\* shake enabled a frame first takes SHAKE_DECAY * dt from it, down to 0 at
\* most, and a frame whose hit trigger fires then adds 0.6, up to 1.0 at most.
C34_ShakeBounded ==
    [][(nframes' = nframes + 1 /\ frame'.looked_up) =>
          /\ 0 <= state'.shake
          /\ state'.shake <= SHAKE_MAX
          /\ ~config.shake => state'.shake = state.shake
          /\ config.shake =>
                \E dt \in Dts :
                    LET left == state.shake - SHAKE_DECAY * dt
                        decayed == IF left > 0 THEN left ELSE 0
                        bumped == IF decayed + SHAKE_BUMP < SHAKE_MAX
                                  THEN decayed + SHAKE_BUMP ELSE SHAKE_MAX
                    IN  state'.shake = IF frame'.fired THEN bumped ELSE decayed]_vars

\* a hit trigger on the frame after a hit trigger: the second bump met the cap
C34_Witness ==
    /\ nframes = 2
    /\ frame.fired
    /\ state.shake = SHAKE_MAX

\* C35: after every frame the trail holds at most TRAIL_LENGTH positions; a
\* frame with an active segment (trails enabled) puts its simulated position
\* at the end of the trail, behind the positions that were there, in their
\* order, without the oldest one when there were TRAIL_LENGTH already; any
\* other frame leaves the trail as it is.
C35_TrailKeepsNewest ==
    [][nframes' = nframes + 1 =>
          /\ Len(state'.trail) <= TRAIL_LENGTH
          /\ (config.trails /\ frame'.looked_up /\ frame'.active) =>
                state'.trail =
                    Append(IF Len(state.trail) = TRAIL_LENGTH
                           THEN Tail(state.trail) ELSE state.trail,
                           FramePos')
          /\ ~(config.trails /\ frame'.looked_up /\ frame'.active) =>
                state'.trail = state.trail]_vars

\* a full trail that has lost its oldest position, which was not where the
\* square is now
C35_Witness ==
    /\ frame.popped
    /\ Len(state.trail) = TRAIL_LENGTH
    /\ state.trail[1] # state.trail[TRAIL_LENGTH]
    /\ state.trail[TRAIL_LENGTH] = FramePos


---------------------------------------------------------------------------
(* GeometryDashGame (sonir/gd.py).  Times are milliseconds; the level's x   *)
(* is in 1/100 pixel and the rectangles of pygame are whole pixels; the     *)
(* player's position is in 1/10000 pixel, its velocity in 1/10 pixel per    *)
(* second, its rotation in 1/100 degree, so that a step of a whole number   *)
(* of milliseconds is exact.                                                *)

GRAVITY == 25               \* 2500 px/s^2: velocity units gained per millisecond
JUMP_FORCE == 0 - 7800      \* -780 px/s
SHIP_GRAVITY == 10          \* 1000 px/s^2
SHIP_LIFT == 0 - 11         \* -1100 px/s^2
SHIP_TERMINAL_VEL == 6000   \* 600 px/s
SCROLL_SPEED == 600         \* px/s
GROUND_Y == HEIGHT - 100    \* px
CEILING_Y == 100            \* px
PLAYER_X == 200             \* px

\* pixels to position units, and int() of a position or of a level x
Px(n) == n * 10000
Trunc(n, unit) == IF n >= 0 THEN n \div unit ELSE 0 - ((0 - n) \div unit)
MinOf(a, b) == IF a < b THEN a ELSE b
MaxOf(a, b) == IF a > b THEN a ELSE b

\* pygame.Rect, of whole pixels
Rect(left, top, w, h) == [left |-> left, top |-> top, w |-> w, h |-> h]
Right(r) == r.left + r.w
Bottom(r) == r.top + r.h
CenterY(r) == r.top + (r.h \div 2)
MoveRect(r, dx) == [r EXCEPT !.left = @ + dx]
CollideRect(a, b) ==
    /\ a.left < Right(b)
    /\ Right(a) > b.left
    /\ a.top < Bottom(b)
    /\ Bottom(a) > b.top

\* _get_x_for_time(t), in 1/100 pixel; a speed is in hundredths
RECURSIVE XFrom(_, _, _, _)
XFrom(segments, t, i, x) ==
    IF i > Len(segments) THEN x
    ELSE LET seg == segments[i]
             next_start == IF i + 1 <= Len(segments) THEN segments[i + 1].start
                           ELSE 999999000
             seg_dur == MinOf(t, next_start) - MaxOf(0, seg.start)
             x1 == IF seg_dur > 0 THEN x + seg_dur * ((seg.speed * SCROLL_SPEED) \div 1000)
                   ELSE x
         IN  IF t < next_start THEN x1 ELSE XFrom(segments, t, i + 1, x1)
GetXForTime(segments, t) ==
    IF segments = <<>> THEN PLAYER_X * 100 + t * ((100 * SCROLL_SPEED) \div 1000)
    ELSE XFrom(segments, t, 1, PLAYER_X * 100)

\* _get_speed_at(t) and _get_mode_at(t): the last segment that has started
StartedAt(segments, t) == {i \in 1..Len(segments) : t >= segments[i].start}
GetSpeedAt(segments, t) ==
    IF StartedAt(segments, t) = {} THEN 100
    ELSE segments[CHOOSE i \in StartedAt(segments, t) :
                      \A j \in StartedAt(segments, t) : j <= i].speed
GetModeAt(segments, t) ==
    IF StartedAt(segments, t) = {} THEN "CUBE"
    ELSE segments[CHOOSE i \in StartedAt(segments, t) :
                      \A j \in StartedAt(segments, t) : j <= i].mode

\* the density windows of _generate_level, from current_time on; rnd.ball is
\* what random.random() > 0.5 gives in a moderate window
RECURSIVE SegmentsFrom(_, _, _, _, _)
SegmentsFrom(segments, all_onsets, duration, current_time, rnd) ==
    IF current_time >= duration THEN segments
    ELSE LET count == Cardinality({i \in 1..Len(all_onsets) :
                         /\ current_time <= all_onsets[i]
                         /\ all_onsets[i] < current_time + 3000})
             next == IF count > 15 THEN [mode |-> "SHIP", speed |-> 120]
                     ELSE IF 2 * count > 15
                     THEN [mode |-> IF rnd.ball THEN "BALL" ELSE "CUBE", speed |-> 100]
                     ELSE [mode |-> "CUBE", speed |-> 90]
             appended == IF segments[Len(segments)].mode # next.mode
                         THEN Append(segments, [start |-> current_time, mode |-> next.mode,
                                                speed |-> next.speed])
                         ELSE segments
         IN  SegmentsFrom(appended, all_onsets, duration, current_time + 3000, rnd)

\* the obstacles and orbs _generate_level places at one onset; rnd.side,
\* rnd.orb, rnd.kind and rnd.center_y are what the random draws give
PlacedAt(segments, t, x, rnd) ==
    LET mode == GetModeAt(segments, t)
        left == Trunc(x, 100)
    IN  IF mode = "SHIP"
        THEN [obstacles |->
                 <<[type |-> "block",
                    rect |-> Rect(left, rnd.center_y + 125, 60,
                                  GROUND_Y - (rnd.center_y + 125))],
                   [type |-> "block",
                    rect |-> Rect(left, CEILING_Y, 60, (rnd.center_y - 125) - CEILING_Y)]>>,
              orbs |-> <<>>]
        ELSE IF mode = "BALL"
        THEN [obstacles |->
                 <<[type |-> "spike",
                    rect |-> Rect(left, IF rnd.side = 1 THEN GROUND_Y - 40 ELSE CEILING_Y,
                                  40, 40)]>>,
              orbs |-> <<>>]
        ELSE IF rnd.orb
        THEN [obstacles |-> <<[type |-> "spike", rect |-> Rect(left, GROUND_Y - 40, 40, 40)]>>,
              orbs |-> <<[rect |-> Rect(left, GROUND_Y - 120, 40, 40)]>>]
        ELSE IF rnd.kind = "spike"
        THEN [obstacles |-> <<[type |-> "spike", rect |-> Rect(left, GROUND_Y - 40, 40, 40)]>>,
              orbs |-> <<>>]
        ELSE [obstacles |-> <<[type |-> "block", rect |-> Rect(left, GROUND_Y - 60, 50, 60)]>>,
              orbs |-> <<>>]

\* the loop over all_onsets that places them, with its distance check
RECURSIVE PlaceObstacles(_, _, _, _, _, _)
PlaceObstacles(level, segments, all_onsets, i, last_x, rnd) ==
    IF i > Len(all_onsets) THEN level
    ELSE LET t == all_onsets[i]
             x == GetXForTime(segments, t)
             placed == PlacedAt(segments, t, x, rnd)
         IN  IF x - last_x < 250 * GetSpeedAt(segments, t)
             THEN PlaceObstacles(level, segments, all_onsets, i + 1, last_x, rnd)
             ELSE PlaceObstacles([obstacles |-> level.obstacles \o placed.obstacles,
                                  orbs |-> level.orbs \o placed.orbs],
                                 segments, all_onsets, i + 1, x, rnd)

\* the portals: one at the start of every segment but the first
Portals(segments) ==
    LET later == SelectSeq(segments, LAMBDA seg : ~(seg.start <= 100))
    IN  [i \in 1..Len(later) |->
            [rect |-> Rect(Trunc(GetXForTime(segments, later[i].start), 100),
                           GROUND_Y - 150, 50, 100),
             type |-> later[i].mode]]

\* _generate_level: all onsets of all tracks, sorted
AllOnsets(tracks) ==
    LET RECURSIVE Concat(_)
        Concat(names) == IF names = {} THEN <<>>
                         ELSE LET n == CHOOSE m \in names : TRUE
                              IN  tracks[n] \o Concat(names \ {n})
    IN  SortKeepDup(Concat(DOMAIN tracks))
GenerateLevel(tracks, duration, rnd) ==
    LET all_onsets == AllOnsets(tracks)
    IN  IF all_onsets = <<>>
        THEN [segments |-> <<>>, obstacles |-> <<>>, portals |-> <<>>, orbs |-> <<>>]
        ELSE LET segments == SegmentsFrom(<<[start |-> 0, mode |-> "CUBE", speed |-> 100]>>,
                                          all_onsets, duration, 5000, rnd)
                 placed == PlaceObstacles([obstacles |-> <<>>, orbs |-> <<>>], segments,
                                          all_onsets, 1, 0, rnd)
             IN  [segments |-> segments, obstacles |-> placed.obstacles,
                  portals |-> Portals(segments), orbs |-> placed.orbs]


\* the player of a new game, and of _reset_level: at the start, in the mode
\* of the first segment
StartMode(segments) == IF segments # <<>> THEN segments[1].mode ELSE "CUBE"
ResetLevel(p, segments) ==
    [p EXCEPT !.player_pos = <<Px(PLAYER_X), Px(GROUND_Y)>>,
              !.player_vel = <<0, 0>>,
              !.dead = FALSE,
              !.rotation = 0,
              !.mode = StartMode(segments),
              !.gravity_flip = 1,
              !.is_grounded = TRUE]

\* GeometryDashGame.__init__
NewPlayer(segments) ==
    [mode |-> StartMode(segments),
     player_pos |-> <<Px(PLAYER_X), Px(GROUND_Y)>>,
     player_vel |-> <<0, 0>>,
     is_grounded |-> TRUE,
     rotation |-> 0,
     dead |-> FALSE,
     holding_jump |-> FALSE,
     gravity_flip |-> 1,
     particles |-> 0]

\* pygame.Rect(player_pos[0] + dx, player_pos[1] - up, size, size)
PlayerRect(p, dx, up, size) ==
    Rect(Trunc(p.player_pos[1] + Px(dx), 10000), Trunc(p.player_pos[2] - Px(up), 10000),
         size, size)

\* rect.move(world_x, 0); world_x is in 1/100 pixel
Moved(rect, world_x) == MoveRect(rect, Trunc(world_x, 100))

\* "1. Input Logic" of render_frame
JumpInputDead(p) ==
    IF p.holding_jump /\ p.mode = "CUBE" /\ p.is_grounded
    THEN [p EXCEPT !.player_vel[2] = JUMP_FORCE * p.gravity_flip, !.is_grounded = FALSE]
    ELSE p
JumpInput(p) ==
    IF p.holding_jump /\ ~p.dead /\ p.mode = "CUBE" /\ p.is_grounded
    THEN [p EXCEPT !.player_vel[2] = JUMP_FORCE * p.gravity_flip, !.is_grounded = FALSE]
    ELSE p

\* "Check Portals"
RECURSIVE CheckPortals(_, _, _, _)
CheckPortals(p, p_rect, portals, world_x) ==
    IF portals = <<>> THEN p
    ELSE LET po == Head(portals)
             switch == CollideRect(p_rect, Moved(po.rect, world_x)) /\ p.mode # po.type
         IN  CheckPortals(IF switch
                          THEN [p EXCEPT !.mode = po.type,
                                         !.player_vel[2] = 0,
                                         !.gravity_flip = 1,
                                         !.rotation = IF po.type = "SHIP" THEN 0 ELSE @]
                          ELSE p,
                          p_rect, Tail(portals), world_x)

\* "Check Orbs": the first orb the player touches bounces it
CheckOrbs(p, p_rect, orbs, world_x) ==
    LET touched == {i \in 1..Len(orbs) : CollideRect(p_rect, Moved(orbs[i].rect, world_x))}
    IN  IF p.holding_jump /\ p.mode = "CUBE" /\ touched # {}
        THEN [p EXCEPT !.player_vel[2] = ((JUMP_FORCE * 12) \div 10) * p.gravity_flip,
                       !.is_grounded = FALSE,
                       !.particles = @ + 5]
        ELSE p

\* _autoplay_ship(world_x)
RECURSIVE ShipTarget(_, _, _)
ShipTarget(p, obstacles, world_x) ==
    IF obstacles = <<>> THEN (GROUND_Y + CEILING_Y) \div 2
    ELSE LET sr == Moved(Head(obstacles).rect, world_x)
         IN  IF Px(Right(sr)) < p.player_pos[1] THEN ShipTarget(p, Tail(obstacles), world_x)
             ELSE IF sr.left > WIDTH THEN (GROUND_Y + CEILING_Y) \div 2
             ELSE IF Px(sr.left) - p.player_pos[1] < Px(300)
             THEN (IF Px(CenterY(sr)) > p.player_pos[2] THEN sr.top - 60 ELSE Bottom(sr) + 60)
             ELSE ShipTarget(p, Tail(obstacles), world_x)
AutoplayShip(p, obstacles, world_x) == p.player_pos[2] > Px(ShipTarget(p, obstacles, world_x))

\* round(rotation / 90) * 90, halves to the even side
Nearest90(rotation) ==
    LET q == rotation \div 9000
        r == rotation - q * 9000
    IN  9000 * (IF 2 * r < 9000 THEN q
                ELSE IF 2 * r > 9000 THEN q + 1
                ELSE IF q % 2 = 0 THEN q ELSE q + 1)

\* player_pos += player_vel * dt
Advanced(p, dt) ==
    [p EXCEPT !.player_pos = <<p.player_pos[1] + p.player_vel[1] * dt,
                               p.player_pos[2] + p.player_vel[2] * dt>>]

\* "Physics", by mode
Physics(p, dt, lift) ==
    IF p.mode = "CUBE"
    THEN LET p1 == Advanced([p EXCEPT !.player_vel[2] = @ + GRAVITY * dt * p.gravity_flip], dt)
         IN  [p1 EXCEPT !.rotation =
                 IF p.is_grounded
                 THEN p.rotation + Trunc((Nearest90(p.rotation) - p.rotation) * 2, 10)
                 ELSE p.rotation - 38 * dt * p.gravity_flip]
    ELSE IF p.mode = "SHIP"
    THEN LET v == p.player_vel[2] + (IF lift THEN SHIP_LIFT ELSE SHIP_GRAVITY) * dt
             capped == MaxOf(MinOf(v, SHIP_TERMINAL_VEL), 0 - SHIP_TERMINAL_VEL)
             p1 == Advanced([p EXCEPT !.player_vel[2] = capped], dt)
         IN  [p1 EXCEPT !.rotation = p.rotation + Trunc((0 - capped) - p.rotation, 10)]
    ELSE LET p1 == Advanced([p EXCEPT !.player_vel[2] = @ + GRAVITY * dt * p.gravity_flip], dt)
         IN  [p1 EXCEPT !.rotation = p.rotation + 20 * dt * p.gravity_flip]

\* "Floor/Ceiling"
FloorCeiling(p) ==
    LET p0 == [p EXCEPT !.is_grounded = FALSE]
        p1 == IF p0.player_pos[2] >= Px(GROUND_Y)
              THEN [p0 EXCEPT !.player_pos[2] = Px(GROUND_Y),
                              !.player_vel[2] = 0,
                              !.is_grounded = TRUE,
                              !.dead = IF p0.gravity_flip = 0 - 1 /\ p0.mode = "CUBE"
                                       THEN TRUE ELSE @]
              ELSE p0
    IN  IF p1.player_pos[2] <= Px(CEILING_Y + 40)
        THEN (IF p1.mode = "SHIP"
              THEN [p1 EXCEPT !.player_pos[2] = Px(CEILING_Y + 40), !.player_vel[2] = 0]
              ELSE IF p1.mode = "BALL" /\ p1.gravity_flip = 0 - 1
              THEN [p1 EXCEPT !.player_pos[2] = Px(CEILING_Y + 40), !.player_vel[2] = 0,
                              !.is_grounded = TRUE]
              ELSE p1)
        ELSE p1

\* "Resolve Collision" with one obstacle the player's rectangle touches
Resolve(p, p_rect, obs, sr) ==
    LET overlap_y == MinOf(Bottom(p_rect), Bottom(sr)) - MaxOf(p_rect.top, sr.top)
        overlap_x == MinOf(Right(p_rect), Right(sr)) - MaxOf(p_rect.left, sr.left)
    IN  IF obs.type = "spike" THEN [p EXCEPT !.dead = TRUE]
        ELSE IF overlap_y < overlap_x /\ p.player_vel[2] > 0 /\ Bottom(p_rect) < CenterY(sr)
        THEN [p EXCEPT !.player_pos[2] = Px(sr.top), !.player_vel[2] = 0,
                       !.is_grounded = TRUE]
        ELSE IF overlap_y < overlap_x /\ p.player_vel[2] < 0 /\ p_rect.top > CenterY(sr)
        THEN [p EXCEPT !.player_pos[2] = Px(Bottom(sr) + 40), !.player_vel[2] = 0,
                       !.is_grounded = IF p.gravity_flip = 0 - 1 THEN TRUE ELSE @]
        ELSE [p EXCEPT !.dead = TRUE]

\* "Obstacles": the loop, which goes on after a death
RECURSIVE Obstacles(_, _, _, _)
Obstacles(p, p_rect, obstacles, world_x) ==
    IF obstacles = <<>> THEN p
    ELSE LET obs == Head(obstacles)
             sr == Moved(obs.rect, world_x)
         IN  IF Right(sr) < 0 THEN Obstacles(p, p_rect, Tail(obstacles), world_x)
             ELSE IF sr.left > WIDTH THEN p
             ELSE Obstacles(IF CollideRect(p_rect, sr) THEN Resolve(p, p_rect, obs, sr) ELSE p,
                            p_rect, Tail(obstacles), world_x)

\* _run_autoplay, CUBE: the jumps over the obstacles ahead
RECURSIVE AutoJumps(_, _, _, _)
AutoJumps(p, p_rect, obstacles, world_x) ==
    IF obstacles = <<>> THEN p
    ELSE LET sr == Moved(Head(obstacles).rect, world_x)
             dist == sr.left - Right(p_rect)
         IN  IF Px(Right(sr)) < p.player_pos[1]
             THEN AutoJumps(p, p_rect, Tail(obstacles), world_x)
             ELSE IF sr.left > WIDTH THEN p
             ELSE AutoJumps(IF 0 < dist /\ dist < 100 /\ p.is_grounded
                            THEN [p EXCEPT !.player_vel[2] = JUMP_FORCE * p.gravity_flip,
                                           !.is_grounded = FALSE]
                            ELSE p,
                            p_rect, Tail(obstacles), world_x)

\* _run_autoplay, BALL: is an obstacle close ahead at the height of the ball
RECURSIVE ImminentDeath(_, _, _, _)
ImminentDeath(p, p_rect, obstacles, world_x) ==
    IF obstacles = <<>> THEN FALSE
    ELSE LET sr == Moved(Head(obstacles).rect, world_x)
             dist == sr.left - Right(p_rect)
         IN  IF Px(Right(sr)) < p.player_pos[1]
             THEN ImminentDeath(p, p_rect, Tail(obstacles), world_x)
             ELSE IF sr.left > WIDTH THEN FALSE
             ELSE \/ /\ 0 < dist
                     /\ dist < 150
                     /\ Abs(Px(CenterY(sr)) - p.player_pos[2]) < Px(50)
                  \/ ImminentDeath(p, p_rect, Tail(obstacles), world_x)

\* _run_autoplay(world_x, p_rect)
RunAutoplay(p, p_rect, level, world_x) ==
    IF p.mode = "CUBE"
    THEN LET p1 == AutoJumps(p, p_rect, level.obstacles, world_x)
             touched == \E i \in 1..Len(level.orbs) :
                            CollideRect(p_rect, Moved(level.orbs[i].rect, world_x))
         IN  IF touched
             THEN [p1 EXCEPT !.player_vel[2] = ((JUMP_FORCE * 12) \div 10) * p1.gravity_flip]
             ELSE p1
    ELSE IF p.mode = "BALL"
    THEN (IF ImminentDeath(p, p_rect, level.obstacles, world_x) /\ p.is_grounded
          THEN [p EXCEPT !.gravity_flip = 0 - p.gravity_flip,
                         !.player_vel[2] = GRAVITY * 100 * (0 - p.gravity_flip)]
          ELSE p)
    ELSE p

\* the block under "if not self.dead" of render_frame
Alive(p, level, is_autoplay, world_x, dt) ==
    LET p_rect == PlayerRect(p, 0, 40, 40)
        p1 == CheckPortals(p, p_rect, level.portals, world_x)
        p2 == CheckOrbs(p1, p_rect, level.orbs, world_x)
        lift == p2.holding_jump \/ (is_autoplay /\ AutoplayShip(p2, level.obstacles, world_x))
        p3 == Physics(p2, dt, lift)
        hitbox == PlayerRect(p3, 5, 35, 30)
        p4 == FloorCeiling(p3)
        p5 == Obstacles(p4, hitbox, level.obstacles, world_x)
    IN  IF is_autoplay /\ ~p5.dead THEN RunAutoplay(p5, hitbox, level, world_x) ELSE p5

\* render_frame(surface, audio_time, dt): what it does to the player
RenderFrame(p, level, is_autoplay, t, dt) ==
    LET world_x == PLAYER_X * 100 - GetXForTime(level.segments, t)
        p1 == JumpInput(p)
    IN  IF ~p1.dead THEN Alive(p1, level, is_autoplay, world_x, dt) ELSE p1

\* GeometryDashGame._handle_input(events, audio_time, paused); pressed_jump
\* is what keys[K_SPACE] or keys[K_UP] or mouse[0] reads, pressed_r is
\* keys[K_r]; _attempt_jump changes nothing
DashHandleInput(p, level, events, paused, pressed_jump, pressed_r) ==
    LET sup == SuperHandleInput(events, paused)
        p1 == [p EXCEPT !.holding_jump = pressed_jump]
    IN  IF p1.dead /\ pressed_r
        THEN [player |-> ResetLevel(p1, level.segments), result |-> <<TRUE, TRUE, RESTART>>]
        ELSE [player |-> p1, result |-> <<sup.running, sup.paused, sup.offset>>]


MaxDashFrames == 10     \* frames rendered per behaviour

\* the onsets of the track: eight in the three seconds from 5 s on, which
\* makes that window a moderate one
DashTracks == [n \in {"drums"} |-> [k \in 1..8 |-> 5000 + 375 * (k - 1)]]
DashDuration == 8000

\* what the random draws of _generate_level give
DashDraws ==
    {[ball |-> TRUE, side |-> 1, orb |-> FALSE, kind |-> "spike", center_y |-> 360],
     [ball |-> TRUE, side |-> 0 - 1, orb |-> FALSE, kind |-> "spike", center_y |-> 360],
     [ball |-> FALSE, side |-> 1, orb |-> TRUE, kind |-> "spike", center_y |-> 360],
     [ball |-> FALSE, side |-> 1, orb |-> FALSE, kind |-> "block", center_y |-> 360]}

\* audio times of the frames, and the frame deltas clock.get_time() gives
DashTimes == {0, 5000, 5300, 5600, 5750}
DashDts == {32}
DashEvents == {<<>>, <<"K_ESCAPE">>}

\* what the latest call did: was is the player it found when that one was
\* dead; ignored says that since the death a frame has been rendered with
\* the jump held
NoCall ==
    [op |-> "none", audio_time |-> 0, pressed_r |-> FALSE, result |-> <<TRUE, FALSE, 0>>,
     was_dead |-> FALSE, was |-> NewPlayer(<<>>), ignored |-> FALSE]

InitDash ==
    /\ url = <<>>
    /\ IdleBake
    /\ IdleView
    /\ IdleCam
    /\ tracks_data = <<>>
    /\ modifiers = {}
    /\ autoplay = FALSE
    /\ game = <<>>
    /\ update = NoUpdate
    /\ hist = NoHist
    /\ \E rnd \in DashDraws, is_autoplay \in BOOLEAN :
          \E level \in {GenerateLevel(DashTracks, DashDuration, rnd)} :
              dash = [level |-> level, autoplay |-> is_autoplay,
                      player |-> NewPlayer(level.segments), nframes |-> 0, last |-> NoCall]

\* a call of _handle_input by the loop, as long as the last one returned
\* running
DashInput ==
    /\ dash.last.result[1]
    /\ \E events \in DashEvents, pressed_jump \in BOOLEAN, pressed_r \in BOOLEAN :
          \E out \in {DashHandleInput(dash.player, dash.level, events, FALSE,
                                      pressed_jump, pressed_r)} :
              dash' = [dash EXCEPT
                          !.player = out.player,
                          !.last = [op |-> "input", audio_time |-> @.audio_time,
                                    pressed_r |-> pressed_r, result |-> out.result,
                                    was_dead |-> dash.player.dead,
                                    was |-> IF dash.player.dead THEN dash.player
                                            ELSE NewPlayer(<<>>),
                                    ignored |-> dash.player.dead /\ @.ignored]]
    /\ UNCHANGED <<bakeVars, viewVars, camVars, url,
                   tracks_data, modifiers, autoplay, game, update, hist>>

\* a call of render_frame by the loop: the audio has moved on, or has been
\* started again after a reset
DashFrame ==
    /\ dash.last.result[1]
    /\ dash.nframes < MaxDashFrames
    /\ \E t \in DashTimes, dt \in DashDts :
          /\ dash.last.result[3] # RESTART => t >= dash.last.audio_time
          /\ dash' = [dash EXCEPT
                         !.player = RenderFrame(dash.player, dash.level, dash.autoplay, t, dt),
                         !.nframes = @ + 1,
                         !.last = [op |-> "frame", audio_time |-> t, pressed_r |-> FALSE,
                                   result |-> <<TRUE, FALSE, 0>>,
                                   was_dead |-> dash.player.dead,
                                   was |-> IF dash.player.dead THEN dash.player
                                           ELSE NewPlayer(<<>>),
                                   ignored |-> /\ dash.player.dead
                                               /\ (@.ignored \/ dash.player.holding_jump)]]
    /\ UNCHANGED <<bakeVars, viewVars, camVars, url,
                   tracks_data, modifiers, autoplay, game, update, hist>>

NextDash == DashInput \/ DashFrame

SpecDash == InitDash /\ [][NextDash]_vars


\* C40: death is absorbing until the reset.  From a state in which the player
\* is dead, a step that leaves it dead changes neither its position nor its
\* velocity, mode, gravity direction, rotation or grounded flag, whatever
\* jump input is held; a step that leaves it alive is a _handle_input call
\* with K_r held, and it puts position, velocity, rotation, gravity
\* direction and grounded flag back to their initial values and the mode to
\* that of the first segment; and a _handle_input call with K_r held does
\* leave it alive.
C40_DeathAbsorbingUntilReset ==
    [][dash.player.dead =>
          /\ dash'.player.dead =>
                /\ dash'.player.player_pos = dash.player.player_pos
                /\ dash'.player.player_vel = dash.player.player_vel
                /\ dash'.player.mode = dash.player.mode
                /\ dash'.player.gravity_flip = dash.player.gravity_flip
                /\ dash'.player.rotation = dash.player.rotation
                /\ dash'.player.is_grounded = dash.player.is_grounded
          /\ ~dash'.player.dead =>
                /\ dash'.last.op = "input"
                /\ dash'.last.pressed_r
                /\ dash'.player.player_pos = <<Px(200), Px(HEIGHT - 100)>>
                /\ dash'.player.player_vel = <<0, 0>>
                /\ dash'.player.rotation = 0
                /\ dash'.player.gravity_flip = 1
                /\ dash'.player.is_grounded
                /\ dash.level.segments # <<>> =>
                      dash'.player.mode = dash.level.segments[1].mode
                /\ \A f \in {"player_pos", "player_vel", "rotation", "gravity_flip",
                             "is_grounded", "mode"} :
                       dash'.player[f] = NewPlayer(dash.level.segments)[f]
          /\ (dash'.last.op = "input" /\ dash'.last.pressed_r /\ dash' # dash) =>
                ~dash'.player.dead]_vars

\* a reset of a player that had died as a ball under flipped gravity, in the
\* air and turned, and had been through a frame with the jump held since
C40_Witness ==
    /\ ~dash.player.dead
    /\ dash.last.op = "input"
    /\ dash.last.pressed_r
    /\ dash.last.was_dead
    /\ dash.last.ignored
    /\ dash.last.was.mode = "BALL"
    /\ dash.last.was.gravity_flip = 0 - 1
    /\ dash.last.was.player_vel[2] # 0
    /\ dash.last.was.rotation # 0
    /\ ~dash.last.was.is_grounded
    /\ dash.player.mode = "CUBE"

===========================================================================
